---------------------------- MODULE Spec2Model ----------------------------
(***************************************************************************)
(* State-machine model of the speckle-tracking core of pyrost              *)
(* (src/pyrost/bin/pyrost.pyx): reference-image estimation, the residual   *)
(* evaluator and the pixel-map refiners.                                   *)
(*                                                                         *)
(* Arithmetic.  The code computes in floating point; the model computes    *)
(* the same expressions exactly, in fixed point:                           *)
(*   - coordinates (u, di, dj, sw_y, sw_x, search offsets) and the         *)
(*     real-valued parameters F, CR and h are integers in units of 1/Q;   *)
(*   - ds_y, ds_x, sigma, intensities, whitefield and reference values     *)
(*     are integers;                                                       *)
(*   - a residual is a fraction an/ad and a loss value an integer          *)
(*     numerator over the denominator LossDen(f, ad);                      *)
(*   - FVU_interp returns the SUM of the per-frame losses, i.e. the code's *)
(*     value times N * LossDen; the factor is the same for every value two *)
(*     of which the code compares or subtracts.                            *)
(* Arrays are tuples, so the code's 0-based A[i, j, k] is A[i+1][j+1][k+1].*)
(***************************************************************************)
EXTENDS Integers, Sequences, FiniteSets, TLC

\* ------------------------------------------------------------------ bounds
Q          == 4     \* fixed-point units per 1.0
NFrames    == 2     \* N, frames in the stack
DetRows    == 1     \* Y, detector rows
DetCols    == 2     \* X, detector columns
RefRows    == 2     \* Y0, rows of the reference image
RefCols    == 3     \* X0, columns of the reference image
MaxCount   == 2     \* largest intensity / reference value
MaxTrials  == 2     \* largest n_trials of pm_rsearch
MaxIter    == 1     \* largest n_iter of pm_devolution
ArgDen     == 200   \* loss arguments are multiples of 1 / ArgDen ...
MaxArg     == 4     \* ... up to MaxArg in absolute value

\* -------------------------------------------------------- program constants
FLOAT_MAX == 2147483647   \* DEF FLOAT_MAX, saturated to the model's integers
RngRange  == 8            \* the generator's outputs are 0 .. RngRange-1

VARIABLES
    entry,        \* the entry point called
    I_n, W, I0, u0, di, dj,          \* input arrays
    ds_y, ds_x, sigma, loss,         \* sampling intervals, noise scale, loss name
    sw_y, sw_x,                      \* search window
    grid_size, n_trials, pop_size, n_iter, F, CR, seed,  \* strategy parameters
    num_threads,
    pc,           \* position of the calling thread
    step,         \* number of prologue steps the call has passed
    heap,         \* names of the arrays and generators allocated by the call
    u, derr,      \* output arrays of the refiners
    r_master,     \* state of the master generator
    r,            \* r[t]: state of worker t's generator
    wpc,          \* wpc[t]: position of worker t
    mread,        \* mread[t]: the master state worker t loaded in gsl_rng_get
    next_iter,    \* first iteration the guided schedule has not handed out
    h,            \* kernel bandwidth of the reference estimators, in units of 1/Q
    f,            \* the loss function choose_loss returned
    I0_buf, W0_buf, W_buf, M_buf,  \* per-worker accumulators of the estimators
    boundscheck,  \* whether the build checks the bounds of array indices
    oob,          \* the reads the call made outside the bounds of an array
    errors,       \* the residual table of tr_gsearch, the output of pm_errors
    dij,          \* the output array of tr_gsearch
    err_acc,      \* the accumulator err of pm_total_error
    err_t,        \* err_t[t]: worker t's private copy of the reduction variable
    arg, ret,     \* argument and result of a routine evaluated on its own
    writes        \* which worker wrote which accumulator slice and output cell,
                  \* and the frames accumulated

inputs == <<entry, I_n, W, u0, di, dj, ds_y, ds_x, sigma, loss, sw_y, sw_x,
            grid_size, n_trials, pop_size, n_iter, F, CR, seed, num_threads, h>>
refine == <<u, derr, r_master, r, wpc, mread, next_iter>>
buffers == <<I0_buf, W0_buf, W_buf, M_buf>>
tables == <<errors, dij, err_acc, err_t>>
extra  == <<boundscheck, oob, tables, arg, ret, writes>>
vars   == <<inputs, I0, f, pc, step, heap, refine, buffers, extra>>

Abs(x) == IF x < 0 THEN -x ELSE x

\* The element of a singleton.  Loops are recursive operators; each passes
\* its state on as Only({Loop(.., s) : s \in {Body(..)}}), which evaluates
\* the body once and binds its value.
Only(S) == CHOOSE x \in S : TRUE
Max(a, b) == IF a > b THEN a ELSE b

\* --------------------------------------------------------- loss functions
\* A loss takes the residual a = an/ad (ad > 0) and returns the numerator of
\* its value over LossDen(f, ad).
LossNames == {"Epsilon", "Huber", "L2", "L1"}

LossDen(fn, ad) ==
    CASE fn = "Huber"   -> 80000 * ad * ad
      [] fn = "Epsilon" -> 4 * ad
      [] fn = "L2"      -> ad * ad
      [] fn = "L1"      -> ad

\* 0.5 a^2 | 1.345 (|a| - 0.6725) | 3.1304875, over 80000 ad^2
Huber_loss(an, ad) ==
    LET aa == Abs(an) IN
    IF 1000 * aa < 1345 * ad THEN 40000 * an * an
    ELSE IF 1000 * aa >= 1345 * ad /\ aa < 3 * ad
         THEN 107600 * aa * ad - 72361 * ad * ad
         ELSE 250439 * ad * ad

\* 0 | |a| - 0.25 | 2.75, over 4 ad
Epsilon_loss(an, ad) ==
    LET aa == Abs(an) IN
    IF 4 * aa < ad THEN 0
    ELSE IF 4 * aa >= ad /\ aa < 3 * ad THEN 4 * aa - ad
         ELSE 11 * ad

\* a^2 | 9, over ad^2
l2_loss(an, ad) ==
    IF -3 * ad < an /\ an < 3 * ad THEN an * an ELSE 9 * ad * ad

\* |a| | 3, over ad
l1_loss(an, ad) ==
    IF -3 * ad < an /\ an < 3 * ad THEN Abs(an) ELSE 3 * ad

\* choose_loss: the names it has a function for
ValidLoss(name) == name \in LossNames

ApplyLoss(fn, an, ad) ==
    CASE fn = "Epsilon" -> Epsilon_loss(an, ad)
      [] fn = "Huber"   -> Huber_loss(an, ad)
      [] fn = "L2"      -> l2_loss(an, ad)
      [] fn = "L1"      -> l1_loss(an, ad)

\* ------------------------------------------------------ residual evaluator
\* mutant: a coordinate beyond the upper bound wraps around to cell 0
InterpAxis_wrap(yn, yd, n) ==
    IF yn <= 0 THEN <<0, 0, 0>>
    ELSE IF yn >= (n - 1) * yd THEN <<0, 0, 0>>
    ELSE <<yn \div yd, (yn \div yd) + 1, yn % yd>>

\* One axis of the bilinear interpolation: the coordinate is yn/yd grid
\* cells; the result is <<y0, y1, dy * yd>>.
InterpAxis(yn, yd, n) ==
    IF yn <= 0 THEN <<0, 0, 0>>
    ELSE IF yn >= (n - 1) * yd THEN <<n - 1, n - 1, 0>>
    ELSE <<yn \div yd, (yn \div yd) + 1, yn % yd>>

\* I0_bi * yd * xd at the coordinate (yn/yd, xn/xd)
Bilinear(img, yn, yd, xn, xd) ==
    LET ay == InterpAxis(yn, yd, Len(img))
        ax == InterpAxis(xn, xd, Len(img[1]))
        y0 == ay[1] + 1   y1 == ay[2] + 1   dy == ay[3]
        x0 == ax[1] + 1   x1 == ax[2] + 1   dx == ax[3]
    IN  (yd - dy) * (xd - dx) * img[y0][x0] + (yd - dy) * dx * img[y0][x1]
        + dy * (xd - dx) * img[y1][x0] + dy * dx * img[y1][x1]

\* The loss of frame i at pixel (j, k) for the candidate coordinate (cy, cx)
FrameLoss(i, j, k, cy, cx) ==
    LET yd == Q * ds_y
        xd == Q * ds_x
        bi == Bilinear(I0, cy - di[i + 1], yd, cx - dj[i + 1], xd)
    IN  ApplyLoss(f, I_n[i + 1][j + 1][k + 1] * yd * xd - W[j + 1][k + 1] * bi,
                  yd * xd * sigma)

RECURSIVE FVU_sum(_, _, _, _, _)
FVU_sum(i, j, k, cy, cx) ==
    IF i = Len(I_n) THEN 0
    ELSE FrameLoss(i, j, k, cy, cx) + FVU_sum(i + 1, j, k, cy, cx)

\* FVU_interp(I_n, W[j,k], I0, di, dj, j, k, cy, cx, ...) * N * LossDen
FVU_interp(j, k, cy, cx) == FVU_sum(0, j, k, cy, cx)


\* ------------------------------------------------------------- generators
\* gsl_rng_mt19937 is library code; the model's generator has the same
\* interface: a state, a step and an output in 0 .. RngRange-1.
rng_step(s) == (5 * s + 3) % (2 * RngRange)

\* gsl_rng_set(r, seed): the generator state a seed produces
gsl_rng_set(s) == (7 * s + 1) % (2 * RngRange)

\* gsl_rng_get(r): the generator after the draw and the value drawn
gsl_rng_get(s) == [r |-> rng_step(s), v |-> rng_step(s) \div 2]

\* gsl_rng_uniform_int(r, n): k = get / (range / n), drawn again while k >= n
RECURSIVE gsl_rng_uniform_int(_, _)
gsl_rng_uniform_int(s, n) ==
    LET g == gsl_rng_get(s)
        k == g.v \div ((RngRange - 1) \div n)
    IN  IF k >= n THEN gsl_rng_uniform_int(g.r, n) ELSE [r |-> g.r, v |-> k]

\* `a = uniform_int(r, n); while a in excl: a = uniform_int(r, n)`
RECURSIVE DrawOther(_, _, _)
DrawOther(s, n, excl) ==
    LET g == gsl_rng_uniform_int(s, n)
    IN  IF g.v \in excl THEN DrawOther(g.r, n, excl) ELSE g

\* mutant: the draw spans one pixel whatever the window is
WindowDraw_unit(sw, v) == (Q * (2 * v - RngRange)) \div RngRange

\* 2.0 * sw * (gsl_rng_uniform(r) - 0.5) for the drawn value v
WindowDraw(sw, v) == (sw * (2 * v - RngRange)) \div RngRange

\* ------------------------------------------------------ pixel-map searchers
\* A searcher works on st = [u, derr, r]: the output map, the error-decrease
\* map and the calling worker's generator.
SetU(uarr, j, k, cy, cx) ==
    [uarr EXCEPT ![1][j + 1][k + 1] = cy, ![2][j + 1][k + 1] = cx]

\* mutant: the error decrease is stored without the comparison
Commit_unclamped(st, j, k, uy_min, ux_min, err0, err_min, rr) ==
    [u    |-> SetU(st.u, j, k, st.u[1][j + 1][k + 1] + uy_min,
                   st.u[2][j + 1][k + 1] + ux_min),
     derr |-> [st.derr EXCEPT ![j + 1][k + 1] = err0 - err_min],
     r    |-> rr]

\* u[0,j,k] += uy_min; u[1,j,k] += ux_min;
\* derrs[j,k] = err0 - err_min if err_min < err0 else 0.0
Commit(st, j, k, uy_min, ux_min, err0, err_min, rr) ==
    [u    |-> SetU(st.u, j, k, st.u[1][j + 1][k + 1] + uy_min,
                   st.u[2][j + 1][k + 1] + ux_min),
     derr |-> [st.derr EXCEPT ![j + 1][k + 1] =
                   IF err_min < err0 THEN err0 - err_min ELSE 0],
     r    |-> rr]

\* dsw * (ii - 0.5 * (wsize - 1)) with dsw = 2 sw / (wsize - 1)
GridOffset(sw, wsize, ii) == (sw * (2 * ii - (wsize - 1))) \div (wsize - 1)

\* range(wsize if dsw > 0.0 else 1)
GridCount(sw, wsize) == IF 2 * sw > 0 THEN wsize ELSE 1

RECURSIVE GridScan(_, _, _, _, _)
GridScan(uarr, j, k, n, best) ==
    LET nx == GridCount(sw_x, grid_size)
    IN  IF n = GridCount(sw_y, grid_size) * nx THEN best
        ELSE LET uy  == GridOffset(sw_y, grid_size, n \div nx)
                 ux  == GridOffset(sw_x, grid_size, n % nx)
                 err == FVU_interp(j, k, uarr[1][j + 1][k + 1] + uy,
                                   uarr[2][j + 1][k + 1] + ux)
             IN  Only({GridScan(uarr, j, k, n + 1, b) : b \in
                          {IF err < best.err
                           THEN [uy |-> uy, ux |-> ux, err |-> err] ELSE best}})

pm_gsearcher(st, j, k) ==
    LET err0 == FVU_interp(j, k, st.u[1][j + 1][k + 1], st.u[2][j + 1][k + 1])
    IN  Only({Commit(st, j, k, best.uy, best.ux, err0, best.err, st.r) : best \in
              {GridScan(st.u, j, k, 0, [uy |-> 0, ux |-> 0, err |-> FLOAT_MAX])}})

RECURSIVE RandomScan(_, _, _, _, _)
RandomScan(uarr, j, k, ii, best) ==
    IF ii = n_trials THEN best
    ELSE LET gy  == gsl_rng_get(best.r)
             gx  == gsl_rng_get(gy.r)
             uy  == WindowDraw(sw_y, gy.v)
             ux  == WindowDraw(sw_x, gx.v)
             err == FVU_interp(j, k, uarr[1][j + 1][k + 1] + uy,
                               uarr[2][j + 1][k + 1] + ux)
         IN  Only({RandomScan(uarr, j, k, ii + 1, b) : b \in
                        {IF err < best.err
                         THEN [uy |-> uy, ux |-> ux, err |-> err, r |-> gx.r]
                         ELSE [best EXCEPT !.r = gx.r]}})

pm_rsearcher(st, j, k) ==
    LET err0 == FVU_interp(j, k, st.u[1][j + 1][k + 1], st.u[2][j + 1][k + 1])
    IN  Only({Commit(st, j, k, best.uy, best.ux, err0, best.err, best.r) : best \in
              {RandomScan(st.u, j, k, 0,
                          [uy |-> 0, ux |-> 0, err |-> FLOAT_MAX, r |-> st.r])}})


\* ---- differential evolution.  d = [pop, cost, new_pop, u_min, err_min, r];
\* pop[2 * ii + c] is d.pop[2 * ii + c + 1].
\* mutant: the trial vector is not clamped
Clamp_off(v, sw) == v

Clamp(v, sw) == IF v > sw THEN sw ELSE IF v < -sw THEN -sw ELSE v

Window(c) == IF c = 0 THEN sw_y ELSE sw_x

\* u_min[c] + F * (pop[2 * a + c] - pop[2 * b + c]), clamped to the window
Mutant(d, a, b, c) ==
    Clamp(d.u_min[c + 1]
          + (F * (d.pop[2 * a + c + 1] - d.pop[2 * b + c + 1])) \div Q, Window(c))

\* the initial population: lines 790-798
RECURSIVE DEPopulate(_, _, _, _, _)
DEPopulate(uarr, j, k, ii, d) ==
    IF ii = pop_size THEN d
    ELSE LET gy == gsl_rng_get(d.r)
             gx == gsl_rng_get(gy.r)
             py == WindowDraw(sw_y, gy.v)
             px == WindowDraw(sw_x, gx.v)
             c  == FVU_interp(j, k, uarr[1][j + 1][k + 1] + py,
                              uarr[2][j + 1][k + 1] + px)
             better == c < d.err_min
         IN  Only({DEPopulate(uarr, j, k, ii + 1, nd) : nd \in
                 {[pop     |-> [d.pop EXCEPT ![2 * ii + 1] = py, ![2 * ii + 2] = px],
                   cost    |-> [d.cost EXCEPT ![ii + 1] = c],
                   new_pop |-> d.new_pop,
                   u_min   |-> IF better THEN <<py, px>> ELSE d.u_min,
                   err_min |-> IF better THEN c ELSE d.err_min,
                   r       |-> gx.r]}})

\* mutant: the trial vector replaces the member whatever its residual is
DEMember_always(uarr, j, k, ii, d) ==
    LET ga  == DrawOther(d.r, pop_size, {ii})
        gb  == DrawOther(ga.r, pop_size, {ii, ga.v})
        gj  == gsl_rng_uniform_int(gb.r, 2)
        gc  == gsl_rng_get(gj.r)
        c1  == gj.v
        c2  == (gj.v + 1) % 2
        v1  == IF gc.v * Q < CR * RngRange
               THEN Mutant(d, ga.v, gb.v, c1) ELSE d.pop[2 * ii + c1 + 1]
        v2  == Mutant(d, ga.v, gb.v, c2)
        ty  == IF c1 = 0 THEN v1 ELSE v2
        tx  == IF c1 = 0 THEN v2 ELSE v1
        err == FVU_interp(j, k, uarr[1][j + 1][k + 1] + ty,
                          uarr[2][j + 1][k + 1] + tx)
    IN  [pop     |-> d.pop,
         cost    |-> [d.cost EXCEPT ![ii + 1] = err],
         new_pop |-> [d.new_pop EXCEPT ![2 * ii + 1] = ty, ![2 * ii + 2] = tx],
         u_min   |-> IF err < d.err_min THEN <<ty, tx>> ELSE d.u_min,
         err_min |-> IF err < d.err_min THEN err ELSE d.err_min,
         r       |-> gc.r]

\* one member of one generation: lines 802-830
DEMember(uarr, j, k, ii, d) ==
    LET ga  == DrawOther(d.r, pop_size, {ii})
        gb  == DrawOther(ga.r, pop_size, {ii, ga.v})
        gj  == gsl_rng_uniform_int(gb.r, 2)
        gc  == gsl_rng_get(gj.r)
        c1  == gj.v
        c2  == (gj.v + 1) % 2
        v1  == IF gc.v * Q < CR * RngRange
               THEN Mutant(d, ga.v, gb.v, c1) ELSE d.pop[2 * ii + c1 + 1]
        v2  == Mutant(d, ga.v, gb.v, c2)
        ty  == IF c1 = 0 THEN v1 ELSE v2
        tx  == IF c1 = 0 THEN v2 ELSE v1
        err == FVU_interp(j, k, uarr[1][j + 1][k + 1] + ty,
                          uarr[2][j + 1][k + 1] + tx)
    IN  IF err < d.cost[ii + 1]
        THEN [pop     |-> d.pop,
              cost    |-> [d.cost EXCEPT ![ii + 1] = err],
              new_pop |-> [d.new_pop EXCEPT ![2 * ii + 1] = ty, ![2 * ii + 2] = tx],
              u_min   |-> IF err < d.err_min THEN <<ty, tx>> ELSE d.u_min,
              err_min |-> IF err < d.err_min THEN err ELSE d.err_min,
              r       |-> gc.r]
        ELSE [d EXCEPT !.new_pop = [d.new_pop EXCEPT ![2 * ii + 1] = d.pop[2 * ii + 1],
                                                     ![2 * ii + 2] = d.pop[2 * ii + 2]],
                       !.r = gc.r]

\* the generations: lines 800-833
RECURSIVE DEEvolve(_, _, _, _, _, _)
DEEvolve(uarr, j, k, n, ii, d) ==
    IF n = n_iter THEN d
    ELSE IF ii = pop_size
         THEN Only({DEEvolve(uarr, j, k, n + 1, 0, nd) : nd \in
                        {[d EXCEPT !.pop = d.new_pop]}})
         ELSE Only({DEEvolve(uarr, j, k, n, ii + 1, nd) : nd \in
                        {DEMember(uarr, j, k, ii, d)}})

\* The state of pm_devolver at pixel (j, k) after population and evolution.
\* u_min is not initialised by the code; it is assigned for ii = 0 because
\* every cost is below FLOAT_MAX.
DEFinal(st, j, k) ==
    DEEvolve(st.u, j, k, 0, 0,
        DEPopulate(st.u, j, k, 0,
            [pop     |-> [n \in 1 .. 2 * pop_size |-> 0],
             cost    |-> [n \in 1 .. pop_size |-> 0],
             new_pop |-> [n \in 1 .. 2 * pop_size |-> 0],
             u_min   |-> <<"uninit", "uninit">>,
             err_min |-> FLOAT_MAX,
             r       |-> st.r]))

pm_devolver(st, j, k) ==
    LET err0 == FVU_interp(j, k, st.u[1][j + 1][k + 1], st.u[2][j + 1][k + 1])
    IN  Only({Commit(st, j, k, d.u_min[1], d.u_min[2], err0, d.err_min, d.r) :
              d \in {DEFinal(st, j, k)}})


\* ------------------------------------------------------------ entry points
Refiners   == {"pm_gsearch", "pm_rsearch", "pm_devolution"}
Randomised == {"pm_rsearch", "pm_devolution"}

Y == Len(I_n[1])
X == Len(I_n[1][1])

\* ------------------------------------------------------ reference estimators
\* Exact arithmetic: a real is a fraction <<n, d>> in lowest terms with d > 0;
\* NaN is the result of a division by zero and of every operation on it.
Estimators == {"KR_reference", "LOWESS_reference"}

RECURSIVE GCD(_, _)
GCD(a, b) == IF b = 0 THEN a ELSE GCD(b, a % b)

NaN == <<0, 0>>

Rat(n, d) ==
    IF d = 0 THEN NaN
    ELSE Only({IF d < 0 THEN <<(-n) \div g, (-d) \div g>> ELSE <<n \div g, d \div g>> :
               g \in {GCD(Abs(n), Abs(d))}})

Whole(n) == <<n, 1>>
Zero == Whole(0)
One == Whole(1)
IsNaN(a) == a[2] = 0
\* common factors are cancelled before the products are formed
RAdd(a, b) ==
    IF IsNaN(a) \/ IsNaN(b) THEN NaN
    ELSE Only({Rat(a[1] * (b[2] \div g) + b[1] * (a[2] \div g), (a[2] \div g) * b[2]) :
               g \in {GCD(a[2], b[2])}})
RNeg(a) == <<-a[1], a[2]>>
RSub(a, b) == RAdd(a, RNeg(b))
RMul(a, b) ==
    IF IsNaN(a) \/ IsNaN(b) THEN NaN
    ELSE Only({Rat((a[1] \div g[1]) * (b[1] \div g[2]), (a[2] \div g[2]) * (b[2] \div g[1])) :
               g \in {<<GCD(Abs(a[1]), b[2]), GCD(Abs(b[1]), a[2])>>}})
RInv(a) == IF a[1] = 0 THEN NaN ELSE IF a[1] < 0 THEN <<-a[2], -a[1]>> ELSE <<a[2], a[1]>>
RDiv(a, b) == IF IsNaN(a) \/ IsNaN(b) THEN NaN ELSE RMul(a, RInv(b))
RPos(a) == ~IsNaN(a) /\ a[1] > 0

\* <int>(n / d) for d > 0: truncation toward zero
Trunc(n, d) == IF n >= 0 THEN n \div d ELSE -((-n) \div d)

\* min_float, max_float over the values of an array
min_float(S) == CHOOSE m \in S : \A x \in S : m <= x
max_float(S) == CHOOSE m \in S : \A x \in S : m >= x

Values(a) == {a[j][k] : j \in 1 .. Len(a), k \in 1 .. Len(a[1])}
Elements(a) == {a[i] : i \in 1 .. Len(a)}

\* n0, m0 and the shape Y0 x X0 of the reference image
\* mutant: the offset is taken from the least translation
n0_least == -min_float(Values(u0[1])) + min_float(Elements(di))

n0 == -min_float(Values(u0[1])) + max_float(Elements(di))
m0 == -min_float(Values(u0[2])) + max_float(Elements(dj))
Y0 == Trunc(max_float(Values(u0[1])) - min_float(Elements(di)) + n0, Q * ds_y) + 1
X0 == Trunc(max_float(Values(u0[2])) - min_float(Elements(dj)) + m0, Q * ds_x) + 1

\* rbf(dsq, h) in units of M_1_SQRT2PI.  exp(-0.5 dsq / h^2) is replaced by
\* a table with the properties of the exponential the estimators rely on:
\* positive, at most 1 and non-increasing in dsq / h^2.
rbf(dsq, hh) ==
    Only({<<1, 2 ^ (IF t > 3 THEN 3 ELSE t)>> : t \in {dsq \div (hh * hh)}})

\* dn = <int>ceil((4.0 * h) / ds)
HalfWidth(ds) == (4 * h + Q * ds - 1) \div (Q * ds)

\* y = u[0,j,k] - (di[i] - n0), x = u[1,j,k] - (dj[i] - m0), in units of 1/Q
PixY(i, j, k) == u0[1][j + 1][k + 1] - (di[i + 1] - n0)
PixX(i, j, k) == u0[2][j + 1][k + 1] - (dj[i + 1] - m0)

\* jj0 .. jj1-1 around j0 = <int>(y / ds) + 1
CellRange(c, ds, n) ==
    LET c0 == Trunc(c, Q * ds) + 1
        lo == IF c0 - HalfWidth(ds) > 0 THEN c0 - HalfWidth(ds) ELSE 0
        hi == IF c0 + HalfWidth(ds) < n THEN c0 + HalfWidth(ds) ELSE n
    IN  lo .. hi - 1

\* The updates <<j, k, jj, kk>> a frame makes, numbered in loop order.  The
\* 2-d routine runs when Y0 > 1; the 1-d routine reads row 0 and writes row 0.
\* With skip, the pixels with W <= 0 are left out: the frame routines do not
\* do this, the comparison images of the mask claim do.
Touches(i, skip) ==
    {<<j, k, jj, kk>> \in (0 .. (IF Y0 > 1 THEN Y - 1 ELSE 0)) \X (0 .. X - 1)
                           \X (0 .. Y0 - 1) \X (0 .. X0 - 1) :
        /\ Y0 > 1 => jj \in CellRange(PixY(i, j, k), ds_y, Y0)
        /\ kk \in CellRange(PixX(i, j, k), ds_x, X0)
        /\ skip => W[j + 1][k + 1] > 0}

LoopIndex(e) == ((e[1] * X + e[2]) * Y0 + e[3]) * X0 + e[4]

\* r = rbf((ds_y * jj - y)^2 + (ds_x * kk - x)^2, h), dsq in units of 1/Q^2
KernelAt(i, e) ==
    LET ey == Q * ds_y * e[3] - PixY(i, e[1], e[2])
        ex == Q * ds_x * e[4] - PixX(i, e[1], e[2])
    IN  rbf((IF Y0 > 1 THEN ey * ey ELSE 0) + ex * ex, h)

\* One worker's slice of the accumulators, all zero
ZeroSlice(e) ==
    LET grid(v) == [jj \in 1 .. Y0 |-> [kk \in 1 .. X0 |-> v]]
    IN  IF e = "KR_reference"
        THEN [I0_buf |-> grid(Zero), W0_buf |-> grid(Zero),
              W_buf |-> "none", M_buf |-> "none"]
        ELSE [I0_buf |-> grid(<<Zero, Zero, Zero>>), W0_buf |-> grid(<<Zero, Zero, Zero>>),
              W_buf |-> grid(Zero), M_buf |-> grid(<<Zero, Zero, Zero, Zero>>)]

\* KR_frame_1d / KR_frame_2d, one update:
\* I0[jj,kk] += I_n[j,k] * W[j,k] * r;  w0[jj,kk] += W[j,k] * W[j,k] * r
KR_update(b, i, e) ==
    LET Ipix == I_n[i + 1][e[1] + 1][e[2] + 1]
        Wpix == W[e[1] + 1][e[2] + 1]
    IN  Only({[b EXCEPT !.I0_buf[e[3] + 1][e[4] + 1] = RAdd(@, RMul(Whole(Ipix * Wpix), rr)),
                        !.W0_buf[e[3] + 1][e[4] + 1] = RAdd(@, RMul(Whole(Wpix * Wpix), rr))] :
              rr \in {KernelAt(i, e)}})

\* m += w * (v - m)
Welford(m, w, v) == RAdd(m, RMul(w, RSub(v, m)))

\* LOWESS_frame_1d / LOWESS_frame_2d, one update: W_sum += r; w = r / W_sum;
\* then the running means of y, x, y^2, x^2, of I W, I W y, I W x and of
\* W^2, W^2 y, W^2 x.  The 1-d routine leaves the y entries alone.
LOWESS_update(b, i, e) ==
    LET IW == Whole(I_n[i + 1][e[1] + 1][e[2] + 1] * W[e[1] + 1][e[2] + 1])
        WW == Whole(W[e[1] + 1][e[2] + 1] * W[e[1] + 1][e[2] + 1])
        y  == Rat(PixY(i, e[1], e[2]), Q)
        x  == Rat(PixX(i, e[1], e[2]), Q)
        two == Y0 > 1
        jj == e[3] + 1
        kk == e[4] + 1
    IN  Only({[b EXCEPT
                 !.W_buf[jj][kk] = ws,
                 !.M_buf[jj][kk] =
                     <<IF two THEN Welford(@[1], w, y) ELSE @[1],
                       Welford(@[2], w, x),
                       IF two THEN Welford(@[3], w, RMul(y, y)) ELSE @[3],
                       Welford(@[4], w, RMul(x, x))>>,
                 !.I0_buf[jj][kk] =
                     <<Welford(@[1], w, IW),
                       IF two THEN Welford(@[2], w, RMul(IW, y)) ELSE @[2],
                       Welford(@[3], w, RMul(IW, x))>>,
                 !.W0_buf[jj][kk] =
                     <<Welford(@[1], w, WW),
                       IF two THEN Welford(@[2], w, RMul(WW, y)) ELSE @[2],
                       Welford(@[3], w, RMul(WW, x))>>] :
              <<ws, w>> \in {Only({<<s, RDiv(rr, s)>> :
                                   s \in {RAdd(b.W_buf[jj][kk], rr)}}) :
                             rr \in {KernelAt(i, e)}}})

FrameUpdate(e_name, b, i, e) ==
    IF e_name = "KR_reference" THEN KR_update(b, i, e) ELSE LOWESS_update(b, i, e)

\* the updates todo of frame i, in loop order
RECURSIVE FrameLoop(_, _, _, _)
FrameLoop(e_name, b, i, todo) ==
    IF todo = {} THEN b
    ELSE Only({FrameLoop(e_name, nx[1], i, nx[2]) :
               nx \in {<<FrameUpdate(e_name, b, i, e), todo \ {e}>> :
                  e \in {CHOOSE m \in todo : \A o \in todo : LoopIndex(m) <= LoopIndex(o)}}})

\* frames i .. ihi-1 accumulated into one worker's slice
RECURSIVE FrameChunk(_, _, _, _, _)
FrameChunk(e_name, b, i, ihi, skip) ==
    IF i >= ihi THEN b
    ELSE Only({FrameChunk(e_name, nb, i + 1, ihi, skip) :
               nb \in {FrameLoop(e_name, b, i, Touches(i, skip))}})

\* I0_sum / W0_sum if W0_sum > 0.0 else 1.0
Ratio_unguarded(num, den) == RDiv(num, den)

Ratio(num, den) == IF RPos(den) THEN RDiv(num, den) ELSE One

\* KR reduction of cell (j, k) over the workers i = 0 .. nT-1 of B
RECURSIVE KR_sum(_, _, _, _, _, _)
KR_sum(B, nT, j, k, i, acc) ==
    IF i = nT THEN acc
    ELSE Only({KR_sum(B, nT, j, k, i + 1, nacc) :
               nacc \in {[I0_sum |-> RAdd(acc.I0_sum, B[i + 1].I0_buf[j + 1][k + 1]),
                          W0_sum |-> RAdd(acc.W0_sum, B[i + 1].W0_buf[j + 1][k + 1])]}})

KR_cell(B, nT, j, k) ==
    Only({[s EXCEPT !.out = Ratio(s.I0_sum, s.W0_sum)] :
          s \in {[state |-> rs, I0_sum |-> rs.I0_sum, W0_sum |-> rs.W0_sum, out |-> One] :
                 rs \in {KR_sum(B, nT, j, k, 0, [I0_sum |-> Zero, W0_sum |-> Zero])}}})

\* mutant: every worker's state enters the merge with the same weight
MergeWeight_equal(wbuf, wsum) == One

\* w = W_buf[i,j,k] / W_sum
MergeWeight(wbuf, wsum) == RDiv(wbuf, wsum)

\* LOWESS merge of cell (j, k) over the workers with W_buf[i,j,k] > 0
RECURSIVE LOWESS_merge(_, _, _, _, _, _)
LOWESS_merge(B, nT, j, k, i, acc) ==
    IF i = nT THEN acc
    ELSE IF ~RPos(B[i + 1].W_buf[j + 1][k + 1])
         THEN LOWESS_merge(B, nT, j, k, i + 1, acc)
         ELSE Only({LOWESS_merge(B, nT, j, k, i + 1, nacc) :
                nacc \in {Only({
                    [W_sum  |-> ws,
                     M_mat  |-> [t \in 1 .. 4 |->
                         Welford(acc.M_mat[t], w, B[i + 1].M_buf[j + 1][k + 1][t])],
                     I0_mat |-> [t \in 1 .. 3 |->
                         Welford(acc.I0_mat[t], w, B[i + 1].I0_buf[j + 1][k + 1][t])],
                     W0_mat |-> [t \in 1 .. 3 |->
                         Welford(acc.W0_mat[t], w, B[i + 1].W0_buf[j + 1][k + 1][t])]] :
                    w \in {MergeWeight(B[i + 1].W_buf[j + 1][k + 1], ws)}}) :
                  ws \in {RAdd(acc.W_sum, B[i + 1].W_buf[j + 1][k + 1])}}})

\* betta = (c - m0 * mean) / var if var > 0.0 else 0.0
Betta(c, m, mean, var) ==
    IF RPos(var) THEN RDiv(RSub(c, RMul(m, mean)), var) ELSE Zero

\* mat[0] - betta_y * (ds_y * j - M[0]) - betta_x * (ds_x * k - M[1])
Predict(mat, M, j, k) ==
    LET var_y == RSub(M[3], RMul(M[1], M[1]))
        var_x == RSub(M[4], RMul(M[2], M[2]))
        betta_y == Betta(mat[2], mat[1], M[1], var_y)
        betta_x == Betta(mat[3], mat[1], M[2], var_x)
    IN  RSub(RSub(mat[1], RMul(betta_y, RSub(Whole(ds_y * j), M[1]))),
             RMul(betta_x, RSub(Whole(ds_x * k), M[2])))

LOWESS_cell(B, nT, j, k) ==
    Only({[state |-> ms,
           I0_sum |-> Predict(ms.I0_mat, ms.M_mat, j, k),
           W0_sum |-> Predict(ms.W0_mat, ms.M_mat, j, k),
           out |-> Ratio(Predict(ms.I0_mat, ms.M_mat, j, k),
                         Predict(ms.W0_mat, ms.M_mat, j, k))] :
          ms \in {LOWESS_merge(B, nT, j, k, 0,
                     [W_sum |-> Zero, M_mat |-> <<Zero, Zero, Zero, Zero>>,
                      I0_mat |-> <<Zero, Zero, Zero>>, W0_mat |-> <<Zero, Zero, Zero>>])}})

\* the reduction of cell (j, k): the reduced state, the numerator and the
\* denominator of the output (predicted ones for LOWESS) and the output
ReduceCell(e_name, B, nT, j, k) ==
    IF e_name = "KR_reference" THEN KR_cell(B, nT, j, k) ELSE LOWESS_cell(B, nT, j, k)

\* The statements of an entry point up to its first parallel phase, in
\* program order: the interval check, the population checks, choose_loss,
\* the array allocations, the creation of the master generator.
Prologue(e) ==
    CASE e = "pm_devolution" -> <<"intervals", "population", "loss", "alloc", "rng">>
      [] e = "pm_rsearch"    -> <<"intervals", "loss", "alloc", "rng">>
      [] e \in {"pm_gsearch", "tr_gsearch", "pm_errors", "ref_errors",
                "ref_total_error"} -> <<"intervals", "loss", "alloc">>
      [] e = "pm_total_error" -> <<"intervals", "loss">>
      [] e \in {"KR_reference", "LOWESS_reference"} -> <<"intervals", "alloc">>

\* The arrays an entry point allocates before its first parallel phase
Arrays(e) ==
    CASE e \in Refiners -> {"u", "derr"}
      [] e = "tr_gsearch" -> {"errors", "dij"}
      [] e = "pm_errors" -> {"errs"}
      [] e = "pm_total_error" -> {}
      [] e = "ref_errors" -> {"err_buf", "R_buf", "err"}
      [] e = "ref_total_error" -> {"err_buf", "R_buf"}
      [] e = "KR_reference" -> {"I0_buf", "W0_buf", "I0"}
      [] e = "LOWESS_reference" -> {"W_buf", "M_buf", "I0_buf", "W0_buf", "I0"}

AtStep(name) ==
    /\ pc = "prologue"
    /\ step < Len(Prologue(entry))
    /\ Prologue(entry)[step + 1] = name

\* pass the current step, or leave the call with a ValueError
Advance(ok) ==
    /\ pc' = IF ~ok THEN "raised"
             ELSE IF step + 1 = Len(Prologue(entry)) THEN "parallel" ELSE "prologue"
    /\ step' = IF ok THEN step + 1 ELSE step

\* if ds_y <= 0.0 or ds_x <= 0.0: raise ValueError
CheckIntervals ==
    /\ AtStep("intervals")
    /\ Advance(~(ds_y <= 0 \/ ds_x <= 0))
    /\ UNCHANGED <<inputs, extra, I0, f, buffers, heap, refine>>

\* pop_size < 4, F outside [0, 2], CR outside [0, 1]: raise ValueError
CheckPopulation ==
    /\ AtStep("population")
    /\ Advance(~(pop_size < 4) /\ ~(F < 0 \/ F > 2 * Q) /\ ~(CR < 0 \/ CR > Q))
    /\ UNCHANGED <<inputs, extra, I0, f, buffers, heap, refine>>

\* f = choose_loss(loss).  choose_loss is a cdef function with a C return
\* type and no except clause: whether the ValueError it raises for an invalid
\* name reaches the caller depends on the Cython release that builds the
\* module.  Releases before 3.0 print the exception, discard it and return a
\* null pointer; the call then goes on with f = NULL.
ChooseLoss ==
    /\ AtStep("loss")
    /\ \E propagated \in IF ValidLoss(loss) THEN {TRUE} ELSE {TRUE, FALSE} :
           /\ Advance(ValidLoss(loss) \/ ~propagated)
           /\ f' = IF ValidLoss(loss) THEN loss
                   ELSE IF propagated THEN f ELSE "NULL"
    /\ UNCHANGED <<inputs, extra, I0, buffers, heap, refine>>

\* The allocations before the first parallel phase.  Refiners:
\* u = PyArray_SimpleNew(...) (not initialised), derr = PyArray_ZEROS(...).
\* Estimators: the per-worker buffers = PyArray_ZEROS(...),
\* I0 = PyArray_SimpleNew(...) (not initialised).
\* tr_gsearch: errors, dij = PyArray_SimpleNew(...); pm_errors: errs likewise.
Allocate ==
    /\ AtStep("alloc")
    /\ Advance(TRUE)
    /\ heap' = heap \cup Arrays(entry)
    /\ u' = IF entry \in Refiners
            THEN [c \in 1 .. 2 |-> [j \in 1 .. Y |-> [k \in 1 .. X |-> "uninit"]]]
            ELSE u
    /\ derr' = IF entry \in Refiners
               THEN [j \in 1 .. Y |-> [k \in 1 .. X |-> 0]] ELSE derr
    /\ wpc' = IF entry \in Estimators \cup {"pm_gsearch"}
              THEN [t \in 1 .. num_threads |-> "loop"] ELSE wpc
    /\ errors' = IF entry \in {"tr_gsearch", "pm_errors"}
                 THEN [j \in 1 .. Y |-> [k \in 1 .. X |-> "uninit"]] ELSE errors
    /\ dij' = IF entry = "tr_gsearch"
              THEN [i \in 1 .. Len(I_n) |-> <<"uninit", "uninit">>] ELSE dij
    /\ I0' = IF entry \in Estimators
             THEN [jj \in 1 .. Y0 |-> [kk \in 1 .. X0 |-> "uninit"]] ELSE I0
    /\ I0_buf' = IF entry \in Estimators
                 THEN [t \in 1 .. num_threads |-> ZeroSlice(entry).I0_buf] ELSE I0_buf
    /\ W0_buf' = IF entry \in Estimators
                 THEN [t \in 1 .. num_threads |-> ZeroSlice(entry).W0_buf] ELSE W0_buf
    /\ W_buf' = IF entry \in Estimators
                THEN [t \in 1 .. num_threads |-> ZeroSlice(entry).W_buf] ELSE W_buf
    /\ M_buf' = IF entry \in Estimators
                THEN [t \in 1 .. num_threads |-> ZeroSlice(entry).M_buf] ELSE M_buf
    /\ UNCHANGED <<inputs, f, r_master, r, mread, next_iter>>
    /\ UNCHANGED <<boundscheck, writes, oob, err_acc, err_t, arg, ret>>

\* r_master = gsl_rng_alloc(gsl_rng_mt19937); gsl_rng_set(r_master, seed)
SeedMaster ==
    /\ AtStep("rng")
    /\ Advance(TRUE)
    /\ heap' = heap \cup {"r_master"}
    /\ r_master' = gsl_rng_set(seed)
    /\ wpc' = [t \in 1 .. num_threads |-> "start"]
    /\ UNCHANGED <<inputs, extra, I0, f, buffers, u, derr, r, mread, next_iter>>

\* --------------------------------------------------- the parallel refinement
Searcher(st, j, k) ==
    CASE entry = "pm_gsearch"    -> pm_gsearcher(st, j, k)
      [] entry = "pm_rsearch"    -> pm_rsearcher(st, j, k)
      [] entry = "pm_devolution" -> pm_devolver(st, j, k)

\* mutant: the searcher runs on every pixel
PixelStep_unmasked(st, j, k) ==
    Only({Searcher(copied, j, k) :
          copied \in {[st EXCEPT !.u = SetU(st.u, j, k, u0[1][j + 1][k + 1],
                                            u0[2][j + 1][k + 1])]}})

\* _u[0,j,k] = u0[0,j,k]; _u[1,j,k] = u0[1,j,k]; if W[j,k] > 0.0: search
PixelStep(st, j, k) ==
    Only({IF W[j + 1][k + 1] > 0 THEN Searcher(copied, j, k) ELSE copied :
          copied \in {[st EXCEPT !.u = SetU(st.u, j, k, u0[1][j + 1][k + 1],
                                            u0[2][j + 1][k + 1])]}})

\* columns k .. khi-1, each from row j = 0 to Y-1
RECURSIVE RunColumns(_, _, _, _)
RunColumns(st, k, khi, j) ==
    IF k = khi THEN st
    ELSE IF j = Y THEN RunColumns(st, k + 1, khi, 0)
         ELSE Only({RunColumns(ns, k, khi, j + 1) : ns \in {PixelStep(st, j, k)}})

\* schedule='guided': the next chunk is the remaining columns / num_threads
ChunkSize(remaining, nthreads) == Max(1, (remaining + nthreads - 1) \div nthreads)

\* thread_seed = gsl_rng_get(r_master) is not synchronised: the load of the
\* master state ...
MasterLoad(t) ==
    /\ pc = "parallel" /\ entry \in Randomised
    /\ wpc[t] = "start"
    /\ mread' = [mread EXCEPT ![t] = r_master]
    /\ wpc' = [wpc EXCEPT ![t] = "load"]
    /\ UNCHANGED <<inputs, extra, I0, f, buffers, pc, step, heap, u, derr, r_master, r, next_iter>>

\* ... and the store of the advanced state; gsl_rng_set(r, thread_seed)
MasterStore(t) ==
    /\ pc = "parallel" /\ entry \in Randomised
    /\ wpc[t] = "load"
    /\ LET g == gsl_rng_get(mread[t])
       IN  /\ r_master' = g.r
           /\ r' = [r EXCEPT ![t] = gsl_rng_set(g.v)]
    /\ wpc' = [wpc EXCEPT ![t] = "loop"]
    /\ UNCHANGED <<inputs, extra, I0, f, buffers, pc, step, heap, u, derr, mread, next_iter>>

\* mutant: the columns are refined in place, in the caller's map as well
RunChunk_inplace(t) ==
    /\ pc = "parallel" /\ entry \in Refiners
    /\ wpc[t] = "loop"
    /\ next_iter < X
    /\ \E st \in {RunColumns([u |-> u, derr |-> derr, r |-> r[t]], next_iter,
                               next_iter + ChunkSize(X - next_iter, num_threads), 0)} :
           /\ u' = st.u
           /\ u0' = [c \in 1 .. 2 |-> [j \in 1 .. Y |-> [k \in 1 .. X |->
                         IF k - 1 \in next_iter .. next_iter + ChunkSize(X - next_iter, num_threads) - 1
                         THEN st.u[c][j][k] ELSE u0[c][j][k]]]]
           /\ derr' = st.derr
           /\ r' = [r EXCEPT ![t] = st.r]
           /\ next_iter' = next_iter + ChunkSize(X - next_iter, num_threads)
    /\ UNCHANGED <<entry, I_n, W, di, dj, ds_y, ds_x, sigma, loss, sw_y, sw_x,
                   grid_size, n_trials, pop_size, n_iter, F, CR, seed, num_threads, h>>
    /\ UNCHANGED <<extra, I0, f, buffers, pc, step, heap, r_master, wpc, mread>>

\* worker t takes the next chunk of the prange over k and runs its columns
RunChunk(t) ==
    /\ pc = "parallel" /\ entry \in Refiners
    /\ wpc[t] = "loop"
    /\ next_iter < X
    /\ \E st \in {RunColumns([u |-> u, derr |-> derr, r |-> r[t]], next_iter,
                               next_iter + ChunkSize(X - next_iter, num_threads), 0)} :
           /\ u' = st.u
           /\ derr' = st.derr
           /\ r' = [r EXCEPT ![t] = st.r]
           /\ next_iter' = next_iter + ChunkSize(X - next_iter, num_threads)
    /\ UNCHANGED <<inputs, extra, I0, f, buffers, pc, step, heap, r_master, wpc, mread>>

\* the end of the parallel region: gsl_rng_free(r), gsl_rng_free(r_master),
\* return u, derr
Return ==
    /\ pc = "parallel" /\ entry \in Refiners
    /\ \A t \in 1 .. num_threads : wpc[t] = "loop"
    /\ next_iter = X
    /\ pc' = "returned"
    /\ UNCHANGED <<inputs, extra, I0, f, buffers, step, heap, refine>>

\* ------------------------------------------------------------------ inputs
Frames(p) ==
    [i \in 1 .. NFrames |-> [j \in 1 .. DetRows |-> [k \in 1 .. DetCols |->
        (p + i + j + 2 * k) % (MaxCount + 1)]]]

Whitefields ==
    {[j \in 1 .. DetRows |-> [k \in 1 .. DetCols |-> ((p + j + k) % 3) - 1]] :
        p \in 0 .. 2}
    \cup {[j \in 1 .. DetRows |-> [k \in 1 .. DetCols |-> 1]]}

RefImage(p) ==
    [y \in 1 .. RefRows |-> [x \in 1 .. RefCols |-> (p * y + x) % (MaxCount + 1)]]

PixelMap(oy, ox) ==
    << [j \in 1 .. DetRows |-> [k \in 1 .. DetCols |-> oy + (j - 1) * Q]],
       [j \in 1 .. DetRows |-> [k \in 1 .. DetCols |-> ox + (k - 1) * Q]] >>

ThreadCounts == {1, 2}
Seeds        == {0, 1}
GridSizes    == {2, 3}

\* nothing allocated, no worker started
Fresh ==
    /\ step = 0 /\ heap = {}
    /\ u = << >> /\ derr = << >>
    /\ r_master = "none"
    /\ r = [t \in 1 .. num_threads |-> "none"]
    /\ mread = [t \in 1 .. num_threads |-> "none"]
    /\ wpc = [t \in 1 .. num_threads |-> "idle"]
    /\ next_iter = 0
    /\ I0_buf = << >> /\ W0_buf = << >> /\ W_buf = << >> /\ M_buf = << >>
    /\ oob = {}
    /\ errors = << >> /\ dij = << >> /\ err_acc = "none"
    /\ err_t = [t \in 1 .. num_threads |-> "none"]
    /\ writes = [acc |-> {}, frames |-> {}, red |-> {}]

Idle == pc = "prologue" /\ f = "none" /\ Fresh

InitPM ==
    /\ entry \in Refiners
    /\ I_n \in {Frames(p) : p \in 0 .. 1}
    /\ W \in Whitefields
    /\ I0 \in {RefImage(p) : p \in 0 .. 1}
    /\ u0 \in {PixelMap(0, 0), PixelMap(Q \div 2, Q)}
    /\ di = [i \in 1 .. NFrames |-> 0]
    /\ dj = [i \in 1 .. NFrames |-> (i - 1) * Q]
    /\ ds_y = 1 /\ ds_x = 1 /\ sigma = 1 /\ h = 0
    /\ loss \in {"L1", "Huber"}
    /\ sw_y \in {0, Q} /\ sw_x \in {0, Q}
    /\ grid_size \in IF entry = "pm_gsearch" THEN GridSizes ELSE {0}
    /\ n_trials \in IF entry = "pm_rsearch" THEN 0 .. MaxTrials ELSE {0}
    /\ pop_size \in IF entry = "pm_devolution" THEN {4} ELSE {0}
    /\ n_iter \in IF entry = "pm_devolution" THEN 0 .. MaxIter ELSE {0}
    /\ F \in IF entry = "pm_devolution" THEN {Q} ELSE {0}
    /\ CR \in IF entry = "pm_devolution" THEN {Q \div 2, Q} ELSE {0}
    /\ seed \in IF entry \in Randomised THEN Seeds ELSE {0}
    /\ num_threads \in ThreadCounts
    /\ boundscheck = TRUE
    /\ Idle /\ arg = << >> /\ ret = << >>

NextPM ==
    \/ CheckIntervals
    \/ CheckPopulation
    \/ ChooseLoss
    \/ Allocate
    \/ SeedMaster
    \/ \E t \in 1 .. num_threads : MasterLoad(t)
    \/ \E t \in 1 .. num_threads : MasterStore(t)
    \/ \E t \in 1 .. num_threads : RunChunk(t)
    \/ Return

SpecPM == InitPM /\ [][NextPM]_vars

\* --------------------------------------------- the parallel reference estimate
\* worker t's slices of the four buffers
Slice(t) ==
    [I0_buf |-> I0_buf[t], W0_buf |-> W0_buf[t], W_buf |-> W_buf[t], M_buf |-> M_buf[t]]

\* the buffers as the reduction reads them: one slice per worker
Slices == [t \in 1 .. num_threads |-> Slice(t)]

\* mutant: every worker accumulates into the first slice
ThreadNum_shared(t) == 1

\* t = openmp.omp_get_thread_num(): the slice worker t passes to the frame
\* routine (the model counts workers and slices from 1)
ThreadNum(t) == t

\* the log of writes after worker t accumulated the frames i .. ihi-1 into
\* slice s
AccWrite(t, s, i, ihi) ==
    [writes EXCEPT !.acc = @ \cup {<<t, s>>}, !.frames = @ \cup (i .. ihi - 1)]

\* the log of writes after worker t wrote the cells of columns k .. khi-1
\* of an output of the given number of rows; the last entry counts the
\* writes the cell has received
RedWrite(t, k, khi, rows) ==
    [writes EXCEPT !.red = @ \cup
        {<<t, j, kk, 1 + Cardinality({w \in writes.red : w[2] = j /\ w[3] = kk})>> :
            j \in 0 .. rows - 1, kk \in k .. khi - 1}]

\* worker t takes the next chunk of the prange over the frames and
\* accumulates them into its own slices
AccumulateChunk(t) ==
    /\ pc = "parallel" /\ entry \in Estimators
    /\ wpc[t] = "loop"
    /\ next_iter < Len(I_n)
    /\ \E b \in {FrameChunk(entry, Slice(ThreadNum(t)), next_iter,
                             next_iter + ChunkSize(Len(I_n) - next_iter, num_threads),
                             FALSE)} :
           /\ I0_buf' = [I0_buf EXCEPT ![ThreadNum(t)] = b.I0_buf]
           /\ W0_buf' = [W0_buf EXCEPT ![ThreadNum(t)] = b.W0_buf]
           /\ W_buf' = [W_buf EXCEPT ![ThreadNum(t)] = b.W_buf]
           /\ M_buf' = [M_buf EXCEPT ![ThreadNum(t)] = b.M_buf]
    /\ next_iter' = next_iter + ChunkSize(Len(I_n) - next_iter, num_threads)
    /\ writes' = AccWrite(t, ThreadNum(t), next_iter,
                          next_iter + ChunkSize(Len(I_n) - next_iter, num_threads))
    /\ UNCHANGED <<inputs, boundscheck, oob, tables, arg, ret>>
    /\ UNCHANGED <<I0, f, pc, step, heap, u, derr, r_master, r, wpc, mread>>

\* mutant: the reduction does not wait for the end of the accumulation
Barrier_nowait ==
    /\ pc = "parallel" /\ entry \in Estimators
    /\ pc' = "reduce"
    /\ next_iter' = 0
    /\ UNCHANGED <<inputs, extra, I0, f, buffers, step, heap, u, derr, r_master, r, wpc, mread>>

\* the end of the prange over the frames; the prange over the columns of the
\* reference image starts
Barrier ==
    /\ pc = "parallel" /\ entry \in Estimators
    /\ next_iter = Len(I_n)
    /\ pc' = "reduce"
    /\ next_iter' = 0
    /\ UNCHANGED <<inputs, extra, I0, f, buffers, step, heap, u, derr, r_master, r, wpc, mread>>

\* the cells of columns k .. khi-1 written into the image
RECURSIVE ReduceColumns(_, _, _, _)
ReduceColumns(img, k, khi, j) ==
    IF k = khi THEN img
    ELSE IF j = Y0 THEN ReduceColumns(img, k + 1, khi, 0)
         ELSE Only({ReduceColumns(nimg, k, khi, j + 1) :
                    nimg \in {[img EXCEPT ![j + 1][k + 1] =
                                  ReduceCell(entry, Slices, num_threads, j, k).out]}})

\* worker t takes the next chunk of the prange over k and reduces its columns
ReduceChunk(t) ==
    /\ pc = "reduce" /\ entry \in Estimators
    /\ wpc[t] = "loop"
    /\ next_iter < X0
    /\ \E img \in {ReduceColumns(I0, next_iter,
                                  next_iter + ChunkSize(X0 - next_iter, num_threads), 0)} :
           I0' = img
    /\ next_iter' = next_iter + ChunkSize(X0 - next_iter, num_threads)
    /\ writes' = RedWrite(t, next_iter, next_iter + ChunkSize(X0 - next_iter, num_threads), Y0)
    /\ UNCHANGED <<inputs, boundscheck, oob, tables, arg, ret>>
    /\ UNCHANGED <<f, buffers, pc, step, heap, u, derr, r_master, r, wpc, mread>>

\* return I0
ReturnReference ==
    /\ pc = "reduce" /\ entry \in Estimators
    /\ next_iter = X0
    /\ pc' = "returned"
    /\ UNCHANGED <<inputs, extra, I0, f, buffers, step, heap, refine>>

Bandwidths == {1, Q \div 2}

InitRef ==
    /\ entry \in Estimators
    /\ I_n \in {Frames(p) : p \in 0 .. 1}
    /\ W \in Whitefields
    /\ I0 = << >>
    /\ u0 \in {PixelMap(0, 0), PixelMap(Q \div 2, Q)}
    /\ di \in {[i \in 1 .. NFrames |-> 0], [i \in 1 .. NFrames |-> (i - 1) * Q]}
    /\ dj \in {[i \in 1 .. NFrames |-> (i - 1) * Q], [i \in 1 .. NFrames |-> (i - 1) * 2 * Q]}
    /\ ds_y = 1 /\ ds_x = 1 /\ sigma = 1
    /\ h \in Bandwidths
    /\ loss = "none"
    /\ sw_y = 0 /\ sw_x = 0
    /\ grid_size = 0 /\ n_trials = 0 /\ pop_size = 0 /\ n_iter = 0
    /\ F = 0 /\ CR = 0 /\ seed = 0
    /\ num_threads \in ThreadCounts
    /\ boundscheck = TRUE
    /\ Idle /\ arg = << >> /\ ret = << >>

NextRef ==
    \/ CheckIntervals
    \/ Allocate
    \/ \E t \in 1 .. num_threads : AccumulateChunk(t)
    \/ Barrier
    \/ \E t \in 1 .. num_threads : ReduceChunk(t)
    \/ ReturnReference

SpecRef == InitRef /\ [][NextRef]_vars


\* ------------------------------------------------- pixel-map refiner claims
Pixels == (0 .. Y - 1) \X (0 .. X - 1)

Returned == pc = "returned" /\ entry \in Refiners

Masked(p) == W[p[1] + 1][p[2] + 1] <= 0

\* the residual of pixel p at its value in the map m
ErrAt(m, p) == FVU_interp(p[1], p[2], m[1][p[1] + 1][p[2] + 1], m[2][p[1] + 1][p[2] + 1])

Moved(p) ==
    \/ u[1][p[1] + 1][p[2] + 1] # u0[1][p[1] + 1][p[2] + 1]
    \/ u[2][p[1] + 1][p[2] + 1] # u0[2][p[1] + 1][p[2] + 1]

\* C1: when pm_gsearch, pm_rsearch or pm_devolution returns, every pixel with
\* W[j,k] <= 0 has u[:,j,k] = u0[:,j,k] and derr[j,k] = 0.
C1_MaskedUntouched ==
    Returned => \A p \in Pixels :
        Masked(p) => ~Moved(p) /\ derr[p[1] + 1][p[2] + 1] = 0

\* a call returned with a masked pixel beside a pixel the search moved
C1_Witness ==
    /\ Returned
    /\ \E p \in Pixels : Masked(p)
    /\ \E p \in Pixels : ~Masked(p) /\ Moved(p)

\* C2 (as claimed): at every pixel the residual at the returned map is at
\* most the residual at the input map.
C2_NeverWorse ==
    Returned => \A p \in Pixels : ErrAt(u, p) <= ErrAt(u0, p)

\* C3: the returned error decrease is, at every pixel, the starting residual
\* minus the residual at the returned point when that is positive, else 0.
C3_DecreaseNonNegative ==
    Returned => \A p \in Pixels :
        /\ derr[p[1] + 1][p[2] + 1] >= 0
        /\ derr[p[1] + 1][p[2] + 1] =
               IF Masked(p) THEN 0 ELSE Max(0, ErrAt(u0, p) - ErrAt(u, p))

\* a call returned with one pixel improved and another moved without gain
C3_Witness ==
    /\ Returned
    /\ \E p \in Pixels : derr[p[1] + 1][p[2] + 1] > 0
    /\ \E p \in Pixels : Moved(p) /\ derr[p[1] + 1][p[2] + 1] = 0

\* C4: with sw_y = sw_x = 0 the returned map is the input map and the error
\* decrease is 0 everywhere.
C4_ZeroWindowIdentity ==
    (Returned /\ sw_y = 0 /\ sw_x = 0) =>
        /\ u = u0
        /\ \A p \in Pixels : derr[p[1] + 1][p[2] + 1] = 0

\* a differential evolution with one generation returned from a zero window
\* after searching a pixel
C4_Witness ==
    /\ Returned /\ sw_y = 0 /\ sw_x = 0
    /\ entry = "pm_devolution" /\ n_iter > 0
    /\ \E p \in Pixels : ~Masked(p)

\* The result of a call in which one worker draws the first seed and runs
\* every column: the only execution with num_threads = 1.
SerialResult ==
    RunColumns([u    |-> [c \in 1 .. 2 |-> [j \in 1 .. Y |-> [k \in 1 .. X |-> "uninit"]]],
                derr |-> [j \in 1 .. Y |-> [k \in 1 .. X |-> 0]],
                r    |-> gsl_rng_set(gsl_rng_get(gsl_rng_set(seed)).v)],
               0, X, 0)

\* C5 (as claimed): pm_rsearch and pm_devolution return, for every thread
\* count, the (u, derr) they return with num_threads = 1.
C5_ThreadCountInvariant ==
    (Returned /\ entry \in Randomised) =>
        u = SerialResult.u /\ derr = SerialResult.derr

\* The result of the schedule in which worker t draws the t-th seed and the
\* chunks go to the workers in turn: ws[t] is worker t's generator.
RECURSIVE InOrderSeeds(_, _, _)
InOrderSeeds(t, master, ws) ==
    IF t > num_threads THEN ws
    ELSE Only({InOrderSeeds(t + 1, g.r, [ws EXCEPT ![t] = gsl_rng_set(g.v)]) :
               g \in {gsl_rng_get(master)}})

RECURSIVE InTurnChunks(_, _, _, _)
InTurnChunks(t, col, ws, out) ==
    IF col = X THEN out
    ELSE Only({InTurnChunks((t % num_threads) + 1,
                            col + ChunkSize(X - col, num_threads),
                            [ws EXCEPT ![t] = st.r],
                            [u |-> st.u, derr |-> st.derr]) :
               st \in {RunColumns([u |-> out.u, derr |-> out.derr, r |-> ws[t]],
                                  col, col + ChunkSize(X - col, num_threads), 0)}})

InTurnResult ==
    InTurnChunks(1, 0,
        InOrderSeeds(1, gsl_rng_set(seed), [t \in 1 .. num_threads |-> "none"]),
        [u    |-> [c \in 1 .. 2 |-> [j \in 1 .. Y |-> [k \in 1 .. X |-> "uninit"]]],
         derr |-> [j \in 1 .. Y |-> [k \in 1 .. X |-> 0]]])

\* C6 (as claimed): with num_threads > 1 every scheduling of the chunks and
\* every interleaving of the workers returns the same (u, derr); the in-turn
\* schedule is one of them.
C6_ScheduleIndependent ==
    (Returned /\ entry \in Randomised /\ num_threads > 1) =>
        u = InTurnResult.u /\ derr = InTurnResult.derr

\* ------------------------------------------------ reference estimator claims
Cells == (0 .. Y0 - 1) \X (0 .. X0 - 1)

\* the slice of one worker that accumulates every frame
SingleSlice(skip) == FrameChunk(entry, ZeroSlice(entry), 0, Len(I_n), skip)

\* C7: for every thread count and every assignment of frames to workers the
\* reduced state of each cell (KR numerator and denominator; LOWESS kernel
\* weight and merged means) is the one a single worker accumulating all
\* frames produces, and so is the returned image.
C7_ThreadCountIndependent ==
    (entry \in Estimators /\ pc \in {"reduce", "returned"}) =>
        \A B \in {<<SingleSlice(FALSE)>>} : \A c \in Cells :
            /\ ReduceCell(entry, Slices, num_threads, c[1], c[2])
                   = ReduceCell(entry, B, 1, c[1], c[2])
            /\ pc = "returned" =>
                   I0[c[1] + 1][c[2] + 1] = ReduceCell(entry, B, 1, c[1], c[2]).out

\* a LOWESS estimate returned by two workers whose states were merged in a
\* cell that did not get the default value
C7_Witness ==
    /\ entry = "LOWESS_reference" /\ pc = "returned" /\ num_threads = 2
    /\ \E c \in Cells :
           /\ RPos(W_buf[1][c[1] + 1][c[2] + 1])
           /\ RPos(W_buf[2][c[1] + 1][c[2] + 1])
           /\ I0[c[1] + 1][c[2] + 1] # One

\* C8 (as claimed): the returned reference image is the image obtained when
\* the pixels with W <= 0 are absent from the accumulation.
C8_MaskedContributeNothing ==
    (entry \in Estimators /\ pc = "returned") =>
        \A B \in {<<SingleSlice(TRUE)>>} : \A c \in Cells :
            I0[c[1] + 1][c[2] + 1] = ReduceCell(entry, B, 1, c[1], c[2]).out

RECURSIVE RSum(_)
RSum(s) == IF s = << >> THEN Zero ELSE RAdd(Head(s), RSum(Tail(s)))

\* KR: the numerator and the denominator accumulated in cell c by all workers
AccNum(c) == RSum([t \in 1 .. num_threads |-> I0_buf[t][c[1] + 1][c[2] + 1]])
AccDen(c) == RSum([t \in 1 .. num_threads |-> W0_buf[t][c[1] + 1][c[2] + 1]])

\* LOWESS: the kernel weight accumulated in cell c by all workers, and the
\* mean of all workers' entry idx of buf weighted by their kernel weights
AccWeight(c) == RSum([t \in 1 .. num_threads |-> W_buf[t][c[1] + 1][c[2] + 1]])

AccMean(buf, c, idx) ==
    IF ~RPos(AccWeight(c)) THEN Zero
    ELSE RDiv(RSum([t \in 1 .. num_threads |->
                       RMul(W_buf[t][c[1] + 1][c[2] + 1], buf[t][c[1] + 1][c[2] + 1][idx])]),
              AccWeight(c))

PredNum(c) ==
    Predict([idx \in 1 .. 3 |-> AccMean(I0_buf, c, idx)],
            [idx \in 1 .. 4 |-> AccMean(M_buf, c, idx)], c[1], c[2])

PredDen(c) ==
    Predict([idx \in 1 .. 3 |-> AccMean(W0_buf, c, idx)],
            [idx \in 1 .. 4 |-> AccMean(M_buf, c, idx)], c[1], c[2])

\* a division by zero left its mark in the image or in an accumulator
DividedByZero ==
    \/ \E c \in Cells : IsNaN(I0[c[1] + 1][c[2] + 1])
    \/ \E c \in Cells, t \in 1 .. num_threads :
           IF entry = "KR_reference"
           THEN IsNaN(I0_buf[t][c[1] + 1][c[2] + 1]) \/ IsNaN(W0_buf[t][c[1] + 1][c[2] + 1])
           ELSE \/ IsNaN(W_buf[t][c[1] + 1][c[2] + 1])
                \/ \E idx \in 1 .. 4 : IsNaN(M_buf[t][c[1] + 1][c[2] + 1][idx])
                \/ \E idx \in 1 .. 3 : IsNaN(I0_buf[t][c[1] + 1][c[2] + 1][idx])
                \/ \E idx \in 1 .. 3 : IsNaN(W0_buf[t][c[1] + 1][c[2] + 1][idx])

EntryPoints ==
    {"KR_reference", "LOWESS_reference", "pm_gsearch", "pm_rsearch", "pm_devolution",
     "tr_gsearch", "pm_errors", "pm_total_error", "ref_errors", "ref_total_error"}

\* the entry points with a loss argument
TakesLoss == EntryPoints \ Estimators

InitArgs ==
    /\ entry \in EntryPoints
    /\ I_n = Frames(0)
    /\ W = [j \in 1 .. DetRows |-> [k \in 1 .. DetCols |-> 1]]
    /\ I0 = IF entry \in Estimators THEN << >> ELSE RefImage(0)
    /\ u0 = PixelMap(0, 0)
    /\ di = [i \in 1 .. NFrames |-> 0]
    /\ dj = [i \in 1 .. NFrames |-> (i - 1) * Q]
    /\ ds_y \in {-1, 0, 1} /\ ds_x \in {0, 1}
    /\ sigma = 1
    /\ h = IF entry \in Estimators \cup {"ref_errors", "ref_total_error"} THEN 1 ELSE 0
    /\ loss \in IF entry \in TakesLoss THEN {"L1", "Epsilon", "L3"} ELSE {"none"}
    /\ sw_y = Q /\ sw_x = Q
    /\ grid_size = IF entry \in {"pm_gsearch", "tr_gsearch"} THEN 2 ELSE 0
    /\ n_trials = IF entry = "pm_rsearch" THEN 1 ELSE 0
    /\ pop_size \in IF entry = "pm_devolution" THEN {3, 4} ELSE {0}
    /\ n_iter = 0
    /\ F \in IF entry = "pm_devolution" THEN {-1, Q, 2 * Q + 1} ELSE {0}
    /\ CR \in IF entry = "pm_devolution" THEN {-1, Q, Q + 1} ELSE {0}
    /\ seed = 0
    /\ num_threads \in ThreadCounts
    /\ boundscheck = TRUE
    /\ Idle /\ arg = << >> /\ ret = << >>

NextArgs ==
    \/ CheckIntervals
    \/ CheckPopulation
    \/ ChooseLoss
    \/ Allocate
    \/ SeedMaster

SpecArgs == InitArgs /\ [][NextArgs]_vars

\* the arguments the claim calls invalid
InvalidArguments ==
    \/ ds_y <= 0 \/ ds_x <= 0
    \/ entry \in TakesLoss /\ loss \notin {"L1", "L2", "Huber", "Epsilon"}
    \/ entry = "pm_devolution" /\ (pop_size < 4 \/ F < 0 \/ F > 2 * Q \/ CR < 0 \/ CR > Q)

\* C10 (as claimed): a call with invalid arguments never gets past its
\* checks: it allocates no array, creates no generator and starts no parallel
\* phase, and once it has left its checks it has raised the error.
C10_RejectedBeforeWork ==
    InvalidArguments =>
        /\ heap = {}
        /\ r_master = "none"
        /\ \A t \in 1 .. num_threads : wpc[t] = "idle" /\ r[t] = "none"
        /\ pc \in {"prologue", "raised"}

\* ------------------------------------------------------ shapes of the arrays
\* The entry points take Y and X from I_n.shape and index W[j, k] and
\* u[c, j, k] with j < Y, k < X; no entry point compares the shapes.  What
\* an index outside an array does depends on the build: with bounds checking
\* the access raises IndexError, without it the read goes past the array.
ShapeW == <<Len(W), Len(W[1])>>
ShapeU == <<Len(u0[1]), Len(u0[1][1])>>

\* one entry point of each kind: reference estimator, pixel-map refiner,
\* translation refiner
ShapeEntries == {"KR_reference", "pm_gsearch", "tr_gsearch"}

\* the length of the first prange of the entry point
Iterations == IF entry \in Estimators THEN Len(I_n) ELSE X

\* The reads <<array, j, k>> of W and u in iterations lo .. hi-1 of the first
\* prange.  pm_gsearch and tr_gsearch: for k, for j: u0[:, j, k] and W[j, k]
\* (tr_gsearch reads u where W[j, k] > 0).  KR_reference: for each frame,
\* u[:, j, k] at every pixel of the frame routine and W[j, k] at every pixel
\* with a cell in its range.
ChunkReads(lo, hi) ==
    IF entry \in Estimators
    THEN UNION {{<<"u", j, k>> : j \in 0 .. (IF Y0 > 1 THEN Y - 1 ELSE 0), k \in 0 .. X - 1}
                \cup {<<"W", e[1], e[2]>> : e \in Touches(i, FALSE)} : i \in lo .. hi - 1}
    ELSE {<<"W", j, k>> : j \in 0 .. Y - 1, k \in lo .. hi - 1}
         \cup {<<"u", j, k>> : j \in 0 .. Y - 1, k \in lo .. hi - 1}

\* the reads that fall outside the array they index
Outside(reads) ==
    {rd \in reads : LET shape == IF rd[1] = "W" THEN ShapeW ELSE ShapeU
                     IN  ~(rd[2] < shape[1] /\ rd[3] < shape[2])}

\* worker t takes the next chunk of the first prange and makes its reads
AccessChunk(t) ==
    /\ pc = "parallel" /\ entry \in ShapeEntries
    /\ t \in 1 .. num_threads
    /\ next_iter < Iterations
    /\ LET hi  == next_iter + ChunkSize(Iterations - next_iter, num_threads)
           bad == Outside(ChunkReads(next_iter, hi))
       IN  IF bad # {} /\ boundscheck
           THEN pc' = "raised" /\ UNCHANGED <<oob, next_iter>>
           ELSE pc' = pc /\ oob' = oob \cup bad /\ next_iter' = hi
    /\ UNCHANGED <<inputs, I0, f, buffers, step, heap, u, derr, r_master, r, wpc, mread>>
    /\ UNCHANGED <<boundscheck, writes, tables, arg, ret>>

\* the end of the first prange
FirstPhaseDone ==
    /\ pc = "parallel" /\ entry \in ShapeEntries
    /\ next_iter = Iterations
    /\ pc' = "scanned"
    /\ UNCHANGED <<inputs, extra, I0, f, buffers, step, heap, refine>>

Ones(rows, cols) == [j \in 1 .. rows |-> [k \in 1 .. cols |-> 1]]

PixelMapOf(rows, cols) ==
    << [j \in 1 .. rows |-> [k \in 1 .. cols |-> (j - 1) * Q]],
       [j \in 1 .. rows |-> [k \in 1 .. cols |-> (k - 1) * Q]] >>

\* The calls with valid scalar arguments, W and u of the shape of a frame or
\* of another shape.  In KR_reference u has the shape of a frame.
InitShape ==
    /\ entry \in ShapeEntries
    /\ I_n = Frames(0)
    /\ W \in {Ones(rows, cols) : rows \in DetRows .. DetRows + 1,
                                  cols \in DetCols - 1 .. DetCols + 1}
    /\ u0 \in {PixelMapOf(DetRows, cols) :
                  cols \in IF entry \in Estimators \/ ShapeW # <<DetRows, DetCols>>
                           THEN {DetCols} ELSE {DetCols - 1, DetCols}}
    /\ I0 = IF entry \in Estimators THEN << >> ELSE RefImage(0)
    /\ di = [i \in 1 .. NFrames |-> 0]
    /\ dj = [i \in 1 .. NFrames |-> (i - 1) * Q]
    /\ ds_y = 1 /\ ds_x = 1 /\ sigma = 1
    /\ h = IF entry \in Estimators THEN 1 ELSE 0
    /\ loss \in IF entry \in Estimators THEN {"none"} ELSE {"L1", "Huber"}
    /\ sw_y = Q /\ sw_x = Q
    /\ grid_size = IF entry \in Estimators THEN 0 ELSE 3
    /\ n_trials = 0 /\ pop_size = 0 /\ n_iter = 0
    /\ F = 0 /\ CR = 0 /\ seed = 0
    /\ num_threads \in ThreadCounts
    /\ boundscheck \in BOOLEAN
    /\ Idle /\ arg = << >> /\ ret = << >>

NextShape ==
    \/ CheckIntervals
    \/ ChooseLoss
    \/ Allocate
    \/ \E t \in 1 .. num_threads : AccessChunk(t)
    \/ FirstPhaseDone

SpecShape == InitShape /\ [][NextShape]_vars

\* W or u has not the shape of a frame
ShapeMismatch == ShapeW # <<Y, X>> \/ ShapeU # <<Y, X>>

\* C11 (as claimed): a call whose W or u has not the shape of the frames
\* never gets past its checks: it allocates nothing, starts no parallel
\* phase and reads no cell outside an array.
C11_ShapeRejected ==
    ShapeMismatch =>
        /\ pc \in {"prologue", "raised"}
        /\ heap = {}
        /\ oob = {}

\* ------------------------------------------------- the loss functions, exact
\* The loss functions on exact fractions <<n, d>>.  Each is written as the
\* code is: the conditions that select a return statement (loss_case) and the
\* expressions returned (loss_return).
RAbs(a) == <<Abs(a[1]), a[2]>>
RLess(a, b) == a[1] * b[2] < b[1] * a[2]
RLeq(a, b) == a[1] * b[2] <= b[1] * a[2]

LossFunctions == {"Huber_loss", "Epsilon_loss", "l2_loss", "l1_loss"}

\* the name choose_loss knows the function by
LossName(fn) ==
    CASE fn = "Huber_loss" -> "Huber" [] fn = "Epsilon_loss" -> "Epsilon"
      [] fn = "l2_loss" -> "L2" [] fn = "l1_loss" -> "L1"

\* the return statement the argument a selects, counted from the first
loss_case(fn, a) ==
    LET aa == RAbs(a) IN
    CASE fn = "Huber_loss" ->
             IF RLess(aa, Rat(1345, 1000)) THEN 1
             ELSE IF RLeq(Rat(1345, 1000), aa) /\ RLess(aa, Whole(3)) THEN 2 ELSE 3
      [] fn = "Epsilon_loss" ->
             IF RLess(aa, Rat(25, 100)) THEN 1
             ELSE IF RLeq(Rat(25, 100), aa) /\ RLess(aa, Whole(3)) THEN 2 ELSE 3
      [] fn \in {"l2_loss", "l1_loss"} ->
             IF RLess(Whole(-3), a) /\ RLess(a, Whole(3)) THEN 1 ELSE 2

\* mutant: the linear branch of the Huber loss is 1.345 (aa - 0.67) and the
\* cap of the Epsilon loss is 2.7
loss_return_rounded(fn, n, a) ==
    LET aa == RAbs(a) IN
    CASE fn = "Huber_loss" ->
             (CASE n = 1 -> RMul(Rat(5, 10), RMul(a, a))
                [] n = 2 -> RMul(Rat(1345, 1000), RSub(aa, Rat(67, 100)))
                [] n = 3 -> Rat(31304875, 10000000))
      [] fn = "Epsilon_loss" ->
             (CASE n = 1 -> Zero
                [] n = 2 -> RSub(aa, Rat(25, 100))
                [] n = 3 -> Rat(27, 10))
      [] fn = "l2_loss" -> IF n = 1 THEN RMul(a, a) ELSE Whole(9)
      [] fn = "l1_loss" -> IF n = 1 THEN aa ELSE Whole(3)

\* mutant: l1_loss returns a, Huber_loss caps at 3.13
loss_return_slips(fn, n, a) ==
    LET aa == RAbs(a) IN
    CASE fn = "Huber_loss" ->
             (CASE n = 1 -> RMul(Rat(5, 10), RMul(a, a))
                [] n = 2 -> RMul(Rat(1345, 1000), RSub(aa, Rat(6725, 10000)))
                [] n = 3 -> Rat(313, 100))
      [] fn = "Epsilon_loss" ->
             (CASE n = 1 -> Zero
                [] n = 2 -> RSub(aa, Rat(25, 100))
                [] n = 3 -> Rat(275, 100))
      [] fn = "l2_loss" -> IF n = 1 THEN RMul(a, a) ELSE Whole(9)
      [] fn = "l1_loss" -> IF n = 1 THEN a ELSE Whole(3)

\* the value return statement n gives for the argument a
loss_return(fn, n, a) ==
    LET aa == RAbs(a) IN
    CASE fn = "Huber_loss" ->
             (CASE n = 1 -> RMul(Rat(5, 10), RMul(a, a))
                [] n = 2 -> RMul(Rat(1345, 1000), RSub(aa, Rat(6725, 10000)))
                [] n = 3 -> Rat(31304875, 10000000))
      [] fn = "Epsilon_loss" ->
             (CASE n = 1 -> Zero
                [] n = 2 -> RSub(aa, Rat(25, 100))
                [] n = 3 -> Rat(275, 100))
      [] fn = "l2_loss" -> IF n = 1 THEN RMul(a, a) ELSE Whole(9)
      [] fn = "l1_loss" -> IF n = 1 THEN aa ELSE Whole(3)

loss_value(fn, a) == loss_return(fn, loss_case(fn, a), a)

\* the call fn(a) returns
LossCall ==
    /\ pc = "call" /\ entry \in LossFunctions
    /\ ret' = loss_value(entry, arg)
    /\ pc' = "returned"
    /\ UNCHANGED <<inputs, I0, f, buffers, step, heap, refine>>
    /\ UNCHANGED <<boundscheck, writes, oob, tables, arg>>

\* The values of the variables of the entry points while a routine is
\* evaluated on its own.
NoArrays ==
    /\ I_n = << >> /\ W = << >> /\ I0 = << >> /\ u0 = << >>
    /\ di = << >> /\ dj = << >>
    /\ ds_y = 1 /\ ds_x = 1 /\ sigma = 1 /\ h = 0 /\ loss = "none"
    /\ sw_y = 0 /\ sw_x = 0
    /\ grid_size = 0 /\ n_trials = 0 /\ pop_size = 0 /\ n_iter = 0
    /\ F = 0 /\ CR = 0 /\ seed = 0
    /\ num_threads = 1 /\ boundscheck = TRUE

\* the arguments: the multiples of 1 / ArgDen up to MaxArg in absolute value
LossArgs == {Rat(n, ArgDen) : n \in -(MaxArg * ArgDen) .. MaxArg * ArgDen}

InitLoss ==
    /\ entry \in LossFunctions
    /\ arg \in LossArgs
    /\ ret = "none"
    /\ NoArrays
    /\ pc = "call" /\ f = "none" /\ Fresh

NextLoss == LossCall

SpecLoss == InitLoss /\ [][NextLoss]_vars

\* The table of the losses: L2 a^2 for |a| < 3, else 9; L1 |a| for |a| < 3,
\* else 3; Huber 0.5 a^2 for |a| < 1.345, 1.345 (|a| - 0.6725) for
\* 1.345 <= |a| < 3, 3.1304875 beyond; Epsilon 0 for |a| < 0.25, |a| - 0.25
\* for 0.25 <= |a| < 3, 2.75 beyond.
Tabulated(fn, a) ==
    LET aa == RAbs(a)
        capped == ~RLess(aa, Whole(3))
    IN  CASE fn = "l2_loss" -> IF capped THEN Whole(9) ELSE RMul(a, a)
          [] fn = "l1_loss" -> IF capped THEN Whole(3) ELSE aa
          [] fn = "Huber_loss" ->
                 IF capped THEN Rat(31304875, 10000000)
                 ELSE IF RLess(aa, Rat(1345, 1000)) THEN RDiv(RMul(a, a), Whole(2))
                      ELSE RSub(RMul(Rat(1345, 1000), aa),
                                RMul(Rat(1345, 1000), Rat(6725, 10000)))
          [] fn = "Epsilon_loss" ->
                 IF capped THEN Rat(275, 100)
                 ELSE IF RLess(aa, Rat(1, 4)) THEN Zero ELSE RSub(aa, Rat(1, 4))

Cap(fn) ==
    CASE fn = "l2_loss" -> Whole(9) [] fn = "l1_loss" -> Whole(3)
      [] fn = "Huber_loss" -> Rat(31304875, 10000000)
      [] fn = "Epsilon_loss" -> Rat(275, 100)

Boundaries(fn) ==
    CASE fn = "Huber_loss" -> {Rat(1345, 1000), Whole(3)}
      [] fn = "Epsilon_loss" -> {Rat(25, 100), Whole(3)}
      [] fn \in {"l2_loss", "l1_loss"} -> {Whole(3)}

\* C13: at every boundary the return statement selected at the boundary and
\* the one selected just inside it give the value returned.
C13_BranchesAgree ==
    (pc = "returned" /\ entry \in LossFunctions /\ RAbs(arg) \in Boundaries(entry)) =>
        LET n      == loss_case(entry, arg)
            inside == RSub(RAbs(arg), Rat(1, 1000))
        IN  /\ loss_case(entry, inside) = n - 1
            /\ loss_return(entry, n - 1, arg) = ret
            /\ loss_return(entry, n, arg) = ret

\* the Huber loss returned at the boundary a = 1.345
C13_Witness ==
    /\ pc = "returned" /\ entry = "Huber_loss"
    /\ arg = <<269, 200>> /\ ret = <<72361, 80000>>

\* ------------------------------------------------ FVU_interp on its own
\* y0, y1, x0, x1 of frame i for the candidate coordinate (cy, cx)
InterpIndices(i, cy, cx) ==
    LET ay == InterpAxis(cy - di[i + 1], Q * ds_y, Len(I0))
        ax == InterpAxis(cx - dj[i + 1], Q * ds_x, Len(I0[1]))
    IN  <<ay[1], ay[2], ax[1], ax[2]>>

\* The call FVU_interp(I_n, W[j, k], I0, di, dj, j, k, cy, cx, ...) with
\* arg = [j, k, cy, cx] returns.  Beside the value returned, ret keeps what
\* each frame's iteration computed: the indices it read I0 at and I0_bi
\* (times yd * xd).
FVUCall ==
    /\ pc = "call" /\ entry = "FVU_interp"
    /\ ret' = [err |-> FVU_interp(arg.j, arg.k, arg.cy, arg.cx),
               idx |-> [i \in 1 .. Len(I_n) |-> InterpIndices(i - 1, arg.cy, arg.cx)],
               bi  |-> [i \in 1 .. Len(I_n) |->
                           Bilinear(I0, arg.cy - di[i], Q * ds_y,
                                    arg.cx - dj[i], Q * ds_x)]]
    /\ pc' = "returned"
    /\ UNCHANGED <<inputs, I0, f, buffers, step, heap, refine>>
    /\ UNCHANGED <<boundscheck, writes, oob, tables, arg>>

\* the translations of the frames: none, forward, backward
Translations ==
    {[i \in 1 .. NFrames |-> 0], [i \in 1 .. NFrames |-> (i - 1) * Q],
     [i \in 1 .. NFrames |-> (1 - i) * (Q + 1)]}

\* candidate coordinates from one pixel before the reference image to one
\* pixel behind it
InitFVU ==
    /\ entry = "FVU_interp"
    /\ I_n = Frames(0)
    /\ W = Ones(DetRows, DetCols)
    /\ I0 \in {RefImage(p) : p \in 0 .. 1}
    /\ u0 = PixelMap(0, 0)
    /\ di \in Translations /\ dj \in Translations
    /\ ds_y \in {1, 2} /\ ds_x \in {1, 2} /\ sigma = 1 /\ h = 0
    /\ loss = "L1" /\ f = "L1"
    /\ sw_y = 0 /\ sw_x = 0
    /\ grid_size = 0 /\ n_trials = 0 /\ pop_size = 0 /\ n_iter = 0
    /\ F = 0 /\ CR = 0 /\ seed = 0
    /\ num_threads = 1 /\ boundscheck = TRUE
    /\ arg \in [j : {0}, k : {0}, cy : -Q .. RefRows * Q, cx : -Q .. RefCols * Q]
    /\ ret = "none"
    /\ pc = "call" /\ Fresh

NextFVU == FVUCall

SpecFVU == InitFVU /\ [][NextFVU]_vars

\* the coordinate c (in units of 1 / d) of an axis with n cells is at or
\* beyond a bound; the cell nearest to it; the nearest point of the image
Beyond(c, d, n) == c <= 0 \/ c >= (n - 1) * d
Nearest(c, d, n) == IF c <= 0 THEN 0 ELSE n - 1
ClampTo(c, d, n) == IF c < 0 THEN 0 ELSE IF c > (n - 1) * d THEN (n - 1) * d ELSE c

\* C14: for every candidate coordinate and every translation the indices
\* FVU_interp reads I0 at satisfy 0 <= y0 <= y1 <= Y0 - 1 and
\* 0 <= x0 <= x1 <= X0 - 1; the interpolated value is the one at the nearest
\* point of the image, and the value of the nearest border cell when the
\* coordinate is at or beyond a bound on both axes.
C14_ReadsInRange ==
    (pc = "returned" /\ entry = "FVU_interp") =>
        \A i \in 1 .. Len(I_n) :
            LET ix == ret.idx[i]
                yd == Q * ds_y
                xd == Q * ds_x
                y  == arg.cy - di[i]
                x  == arg.cx - dj[i]
                ny == Len(I0)
                nx == Len(I0[1])
            IN  /\ 0 <= ix[1] /\ ix[1] <= ix[2] /\ ix[2] <= ny - 1
                /\ 0 <= ix[3] /\ ix[3] <= ix[4] /\ ix[4] <= nx - 1
                /\ ret.bi[i] = Bilinear(I0, ClampTo(y, yd, ny), yd, ClampTo(x, xd, nx), xd)
                /\ (Beyond(y, yd, ny) /\ Beyond(x, xd, nx)) =>
                       ret.bi[i] = yd * xd * I0[Nearest(y, yd, ny) + 1][Nearest(x, xd, nx) + 1]

\* a call returned in which one frame's coordinate lies behind the last row
\* and before the first column and another frame's coordinate lies between
\* the cells
C14_Witness ==
    /\ pc = "returned" /\ entry = "FVU_interp"
    /\ \E i \in 1 .. Len(I_n) :
           /\ arg.cy - di[i] > (Len(I0) - 1) * Q * ds_y
           /\ arg.cx - dj[i] < 0
    /\ \E i \in 1 .. Len(I_n) :
           /\ ret.idx[i][1] < ret.idx[i][2]
           /\ ret.idx[i][3] < ret.idx[i][4]
           /\ (arg.cx - dj[i]) % (Q * ds_x) # 0

\* ------------------------------------------------- the translation refiner
\* f((I_n[j, k] - W[j, k] * I0_bi) / sigma) of frame i at pixel (j, k), I0_bi
\* interpolated at ((u[0, j, k] - d_y) / ds_y, (u[1, j, k] - d_x) / ds_x)
TrLoss(i, j, k, d_y, d_x) ==
    LET yd == Q * ds_y
        xd == Q * ds_x
        bi == Bilinear(I0, u0[1][j + 1][k + 1] - d_y, yd, u0[2][j + 1][k + 1] - d_x, xd)
    IN  ApplyLoss(f, I_n[i + 1][j + 1][k + 1] * yd * xd - W[j + 1][k + 1] * bi,
                  yd * xd * sigma)

\* The loop of FVU_interp_tr from pixel number n on.  The table tab holds
\* sums over the N frames, so the losses of one frame enter N times.  The
\* second interpolation of the code is made at (di0, dj0), as the first is;
\* di and dj are not used.
RECURSIVE TrSum(_, _, _, _, _, _, _)
TrSum(tab, i, di0, dj0, di_c, dj_c, n) ==
    IF n = Y * X THEN 0
    ELSE LET j == n \div X
             k == n % X
             err0 == TrLoss(i, j, k, di0, dj0)
             err1 == TrLoss(i, j, k, di0, dj0)
         IN  (tab[j + 1][k + 1] - Len(I_n) * err0 + Len(I_n) * err1)
             + TrSum(tab, i, di0, dj0, di_c, dj_c, n + 1)

\* FVU_interp_tr(errors, I_n[i], W, I0, u, di0, dj0, di, dj, ...) * Y * X * N * LossDen
FVU_interp_tr(tab, i, di0, dj0, di_c, dj_c) == TrSum(tab, i, di0, dj0, di_c, dj_c, 0)

\* the grid scan of tr_updater for frame i
RECURSIVE TrScan(_, _, _)
TrScan(i, n, best) ==
    LET nx == GridCount(sw_x, grid_size)
    IN  IF n = GridCount(sw_y, grid_size) * nx THEN best
        ELSE LET dii == GridOffset(sw_y, grid_size, n \div nx)
                 djj == GridOffset(sw_x, grid_size, n % nx)
                 e   == FVU_interp_tr(errors, i, di[i + 1], dj[i + 1],
                                      di[i + 1] + dii, dj[i + 1] + djj)
             IN  Only({TrScan(i, n + 1, b) : b \in
                          {IF e < best.err_min
                           THEN [di_min |-> dii, dj_min |-> djj, err_min |-> e]
                           ELSE best}})

\* _dij[i, 0] = di[i]; _dij[i, 1] = dj[i]; tr_updater: di[0] += di_min;
\* dj[0] += dj_min
tr_updater(i) ==
    Only({<<di[i + 1] + best.di_min, dj[i + 1] + best.dj_min>> : best \in
          {TrScan(i, 0, [di_min |-> 0, dj_min |-> 0, err_min |-> FLOAT_MAX])}})

\* FVU_interp(...) if W[j, k] > 0.0 else 0.0
PixelError(j, k) ==
    IF W[j + 1][k + 1] > 0
    THEN FVU_interp(j, k, u0[1][j + 1][k + 1], u0[2][j + 1][k + 1]) ELSE 0

\* worker t takes the next chunk of the prange over k and fills its columns
\* of errors (tr_gsearch) or errs (pm_errors)
ErrorsChunk(t) ==
    /\ pc = "parallel" /\ entry \in {"tr_gsearch", "pm_errors"}
    /\ t \in 1 .. num_threads
    /\ next_iter < X
    /\ \E hi \in {next_iter + ChunkSize(X - next_iter, num_threads)} :
           /\ errors' = [j \in 1 .. Y |-> [k \in 1 .. X |->
                             IF k - 1 \in next_iter .. hi - 1
                             THEN PixelError(j - 1, k - 1) ELSE errors[j][k]]]
           /\ next_iter' = hi
    /\ UNCHANGED <<inputs, I0, f, buffers, pc, step, heap, u, derr, r_master, r, wpc, mread>>
    /\ UNCHANGED <<boundscheck, writes, oob, dij, err_acc, err_t, arg, ret>>

\* the end of the prange over k; the prange over the frames starts
TrBarrier ==
    /\ pc = "parallel" /\ entry = "tr_gsearch"
    /\ next_iter = X
    /\ pc' = "translate"
    /\ next_iter' = 0
    /\ UNCHANGED <<inputs, extra, I0, f, buffers, step, heap, u, derr, r_master, r, wpc, mread>>

\* worker t takes the next chunk of the prange over the frames
TrChunk(t) ==
    /\ pc = "translate" /\ entry = "tr_gsearch"
    /\ t \in 1 .. num_threads
    /\ next_iter < Len(I_n)
    /\ \E hi \in {next_iter + ChunkSize(Len(I_n) - next_iter, num_threads)} :
           /\ dij' = [i \in 1 .. Len(I_n) |->
                          IF i - 1 \in next_iter .. hi - 1 THEN tr_updater(i - 1) ELSE dij[i]]
           /\ next_iter' = hi
    /\ UNCHANGED <<inputs, I0, f, buffers, pc, step, heap, u, derr, r_master, r, wpc, mread>>
    /\ UNCHANGED <<boundscheck, writes, oob, errors, err_acc, err_t, arg, ret>>

\* return dij
ReturnTR ==
    /\ pc = "translate" /\ entry = "tr_gsearch"
    /\ next_iter = Len(I_n)
    /\ pc' = "returned"
    /\ UNCHANGED <<inputs, extra, I0, f, buffers, step, heap, refine>>

InitTR ==
    /\ entry = "tr_gsearch"
    /\ I_n \in {Frames(p) : p \in 0 .. 1}
    /\ W \in Whitefields
    /\ I0 \in {RefImage(p) : p \in 0 .. 1}
    /\ u0 \in {PixelMap(0, 0), PixelMap(Q \div 2, Q)}
    /\ di = [i \in 1 .. NFrames |-> 0]
    /\ dj \in {[i \in 1 .. NFrames |-> (i - 1) * Q], [i \in 1 .. NFrames |-> 0]}
    /\ ds_y = 1 /\ ds_x = 1 /\ sigma = 1 /\ h = 0
    /\ loss \in {"L1", "Huber"}
    /\ sw_y \in {0, Q} /\ sw_x \in {0, Q}
    /\ grid_size \in GridSizes
    /\ n_trials = 0 /\ pop_size = 0 /\ n_iter = 0
    /\ F = 0 /\ CR = 0 /\ seed = 0
    /\ num_threads \in ThreadCounts
    /\ boundscheck = TRUE
    /\ Idle /\ arg = << >> /\ ret = << >>

NextTR ==
    \/ CheckIntervals
    \/ ChooseLoss
    \/ Allocate
    \/ \E t \in 1 .. num_threads : ErrorsChunk(t)
    \/ TrBarrier
    \/ \E t \in 1 .. num_threads : TrChunk(t)
    \/ ReturnTR

SpecTR == InitTR /\ [][NextTR]_vars

\* the aggregate residual of frame i at the translation (d_y, d_x): the sum
\* of the frame's losses over the detector
RECURSIVE FrameErrorFrom(_, _, _, _)
FrameErrorFrom(i, d_y, d_x, n) ==
    IF n = Y * X THEN 0
    ELSE TrLoss(i, n \div X, n % X, d_y, d_x) + FrameErrorFrom(i, d_y, d_x, n + 1)

FrameError(i, d_y, d_x) == FrameErrorFrom(i, d_y, d_x, 0)

\* the translations of frame i tr_updater evaluates
Candidates(i) ==
    {<<di[i + 1] + GridOffset(sw_y, grid_size, ii),
       dj[i + 1] + GridOffset(sw_x, grid_size, jj)>> :
        ii \in 0 .. GridCount(sw_y, grid_size) - 1,
        jj \in 0 .. GridCount(sw_x, grid_size) - 1}

\* C15 (as claimed): for each frame tr_gsearch returns a grid candidate whose
\* frame error is at most the frame error of every grid candidate, and so,
\* for an odd grid_size, at most the frame error at the input translation.
C15_FrameMinimum ==
    (pc = "returned" /\ entry = "tr_gsearch") =>
        \A i \in 0 .. Len(I_n) - 1 :
            /\ dij[i + 1] \in Candidates(i)
            /\ \A c \in Candidates(i) :
                   FrameError(i, dij[i + 1][1], dij[i + 1][2]) <= FrameError(i, c[1], c[2])

\* ------------------------------------------------ the refiners together
InitRefine == InitPM \/ InitTR

NextRefine == NextPM \/ NextTR

SpecRefine == InitRefine /\ [][NextRefine]_vars

\* an output map no pixel of which has been written
Blank == [c \in 1 .. 2 |-> [j \in 1 .. Y |-> [k \in 1 .. X |-> "uninit"]]]

\* the step of pixel (j, k) made on a map that holds no other pixel
LocalStep(st, j, k) ==
    Only({[u    |-> SetU(st.u, j, k, loc.u[1][j + 1][k + 1], loc.u[2][j + 1][k + 1]),
           derr |-> loc.derr,
           r    |-> loc.r] :
          loc \in {PixelStep([u |-> Blank, derr |-> st.derr, r |-> st.r], j, k)}})

RECURSIVE LocalColumns(_, _, _, _)
LocalColumns(st, k, khi, j) ==
    IF k = khi THEN st
    ELSE IF j = Y THEN LocalColumns(st, k + 1, khi, 0)
         ELSE Only({LocalColumns(ns, k, khi, j + 1) : ns \in {LocalStep(st, j, k)}})

\* the result of one worker that makes every pixel's step in this way
LocalResult ==
    LocalColumns([u    |-> Blank,
                  derr |-> [j \in 1 .. Y |-> [k \in 1 .. X |-> 0]],
                  r    |-> gsl_rng_set(gsl_rng_get(gsl_rng_set(seed)).v)],
                 0, X, 0)

\* the search of a pixel reads the map at that pixel only: a returned
\* pm_gsearch, and a returned pm_rsearch or pm_devolution of one worker,
\* returns what the steps on the otherwise empty map give
ReadsOwnPixel ==
    (Returned /\ (entry = "pm_gsearch" \/ num_threads = 1)) =>
        u = LocalResult.u /\ derr = LocalResult.derr

\* C16: no step of pm_gsearch, pm_rsearch, pm_devolution or tr_gsearch changes
\* I_n, W, I0, u0, di or dj; u, derr and dij are written only once they are
\* allocated by the call; the search of a pixel reads the map only at that
\* pixel.
C16_InputsUntouched ==
    /\ [][/\ <<I_n, W, I0, u0, di, dj>>' = <<I_n, W, I0, u0, di, dj>>
          /\ "u" \notin heap' => u' = << >>
          /\ "derr" \notin heap' => derr' = << >>
          /\ "dij" \notin heap' => dij' = << >>]_vars
    /\ []ReadsOwnPixel

\* a refiner returned a map that differs from its input, and tr_gsearch
\* translations that differ from its input
C16_Witness ==
    /\ pc = "returned"
    /\ \/ entry \in Refiners /\ \E p \in Pixels : Moved(p)
       \/ entry = "tr_gsearch" /\ \E i \in 1 .. Len(I_n) : dij[i] # <<di[i], dj[i]>>

\* ------------------------------------- the refiners of the earlier module
\* update_pixel_map_gs and update_pixel_map_nm.  sw_y, sw_x are sw_ss, sw_fs,
\* h is the length scale ls, n_iter is max_iter; coordinates are in units of
\* 1/Q, the shifts ss, fs of the grid in whole pixels.
LegacyRefiners == {"update_pixel_map_gs", "update_pixel_map_nm"}

Min(a, b) == IF a < b THEN a ELSE b

RSq(a) == RMul(a, a)

\* djk = <int>(ceil(2 * ls))
KrigHalf == (2 * h + Q - 1) \div Q

\* the cells jj0 <= jj < jj1, kk0 <= kk < kk1 around pixel (j, k)
KrigCells(j, k) ==
    (Max(j - KrigHalf, 0) .. Min(j + KrigHalf, Y) - 1)
        \X (Max(k - KrigHalf, 0) .. Min(k + KrigHalf, X) - 1)

\* <<sum of I_n[i,jj,kk] * W[jj,kk] * r, w0>> over the cells S
RECURSIVE KrigSum(_, _, _, _)
KrigSum(i, j, k, S) ==
    IF S = {} THEN <<Zero, Zero>>
    ELSE LET c    == CHOOSE c \in S : TRUE
             dsq  == (u0[1][c[1] + 1][c[2] + 1] - u0[1][j + 1][k + 1]) ^ 2
                     + (u0[2][c[1] + 1][c[2] + 1] - u0[2][j + 1][k + 1]) ^ 2
             wgt  == W[c[1] + 1][c[2] + 1]
         IN  Only({<<RAdd(rest[1], RMul(Whole(I_n[i][c[1] + 1][c[2] + 1] * wgt), rr)),
                     RAdd(rest[2], RMul(Whole(wgt * wgt), rr))>> :
                   rest \in {KrigSum(i, j, k, S \ {c})}, rr \in {rbf(dsq, h)}})

\* the kriged profile I[0 .. a-1] of pixel (j, k); I[a], which enters the
\* variance estimate only, is left out
krig_data_c(j, k) ==
    [i \in 1 .. Len(I_n) |->
        Only({RDiv(sums[1], sums[2]) : sums \in {KrigSum(i, j, k, KrigCells(j, k))}})]

\* <<SS_res, SS_tot>> of the frames i .. a-1 at the map value (ux, uy)
RECURSIVE mse_sums(_, _, _, _)
mse_sums(Ik, ux, uy, i) ==
    IF i > Len(Ik) THEN <<Zero, Zero>>
    ELSE Only({<<RAdd(rest[1], RSq(RSub(Ik[i], bi))), RAdd(rest[2], RSq(RSub(Ik[i], One)))>> :
               rest \in {mse_sums(Ik, ux, uy, i + 1)},
               bi \in {Rat(Bilinear(I0, ux - di[i], Q, uy - dj[i], Q), Q * Q)}})

\* m_ptr[0] = SS_res / SS_tot
mse_bi(Ik, ux, uy) ==
    Only({RDiv(sums[1], sums[2]) : sums \in {mse_sums(Ik, ux, uy, 1)}})

\* int bnds[6]: sw_ss, sw_fs, di0, di1, dj0, dj1
bnds ==
    [sw_ss |-> IF entry = "update_pixel_map_gs" THEN Max(sw_y, Q) ELSE Q,
     sw_fs |-> Max(sw_x, Q),
     di0   |-> Q * Trunc(min_float(Elements(di)), Q),
     di1   |-> Q * (Trunc(max_float(Elements(di)), Q) + Len(I0)),
     dj0   |-> Q * Trunc(min_float(Elements(dj)), Q),
     dj1   |-> Q * (Trunc(max_float(Elements(dj)), Q) + Len(I0[1]))]

\* sslb, ssub, fslb, fsub of a pixel whose map value is (uy, ux)
SearchWindow(uy, ux) ==
    [sslb |-> IF bnds.sw_ss < uy - bnds.di0 THEN -(bnds.sw_ss \div Q)
              ELSE Trunc(bnds.di0 - uy, Q),
     ssub |-> IF bnds.sw_ss < bnds.di1 - uy THEN bnds.sw_ss \div Q
              ELSE Trunc(bnds.di1 - uy, Q),
     fslb |-> IF bnds.sw_fs < ux - bnds.dj0 THEN -(bnds.sw_fs \div Q)
              ELSE Trunc(bnds.dj0 - ux, Q),
     fsub |-> IF bnds.sw_fs < bnds.dj1 - ux THEN bnds.sw_fs \div Q
              ELSE Trunc(bnds.dj1 - ux, Q)]

\* the number of grid points of a window
GridPoints(win) == Max(win.ssub - win.sslb, 0) * Max(win.fsub - win.fslb, 0)

\* m < mse_min and m > mse_max; a comparison with NaN is false
Below(m, b) == ~IsNaN(m) /\ (b = Whole(FLOAT_MAX) \/ RLess(m, b))
Above(m, b) == ~IsNaN(m) /\ (b = Whole(-FLOAT_MAX) \/ RLess(b, m))

\* for ss in range(sslb, ssub): for fs in range(fslb, fsub): the n-th point on
RECURSIVE GridMSE(_, _, _, _, _, _)
GridMSE(Ik, uy, ux, win, n, best) ==
    IF n >= GridPoints(win) THEN best
    ELSE LET ss == win.sslb + (n \div (win.fsub - win.fslb))
             fs == win.fslb + (n % (win.fsub - win.fslb))
         IN  Only({GridMSE(Ik, uy, ux, win, n + 1,
                       [mse_min |-> IF Below(m, best.mse_min) THEN m ELSE best.mse_min,
                        ss_min  |-> IF Below(m, best.mse_min) THEN ss ELSE best.ss_min,
                        fs_min  |-> IF Below(m, best.mse_min) THEN fs ELSE best.fs_min,
                        mse_max |-> IF Above(m, best.mse_max) THEN m ELSE best.mse_max,
                        ss_max  |-> IF Above(m, best.mse_max) THEN ss ELSE best.ss_max,
                        fs_max  |-> IF Above(m, best.mse_max) THEN fs ELSE best.fs_max]) :
                   m \in {mse_bi(Ik, uy + ss * Q, ux + fs * Q)}})

\* the grid search of mse_min_c and init_newton_c from the shifts (s0, f0)
GridSearch(Ik, uy, ux, s0, f0) ==
    Only({GridMSE(Ik, uy, ux, win, 0,
              [mse_min |-> Whole(FLOAT_MAX), ss_min |-> s0, fs_min |-> f0,
               mse_max |-> Whole(-FLOAT_MAX), ss_max |-> win.sslb, fs_max |-> win.fslb]) :
          win \in {SearchWindow(uy, ux)}})

\* The step of subpixel_ref_2d and subpixel_ref_1d reads mv_ptr[1] before
\* it is set and takes roots: its shift (dss, dfs), for finite residuals a
\* vector of length at most 1, is not computed here but chosen from these.
SubShifts == {v \in {-Q, 0, Q} \X {-Q, 0, Q} : v[1] * v[1] + v[2] * v[2] <= Q * Q}

\* mse_min_c on u[:, j, k] = (uy, ux) with the sub-pixel shift sub
mse_min_c(Ik, uy, ux, sub) ==
    LET g   == GridSearch(Ik, uy, ux, SearchWindow(uy, ux).sslb, SearchWindow(uy, ux).fslb)
        win == SearchWindow(uy, ux)
    IN  <<uy + g.ss_min * Q + (IF win.ssub - win.sslb > 1 THEN sub[1] ELSE 0),
          ux + g.fs_min * Q + sub[2]>>

\* the second loop of init_newton_c: the largest curvature l among the grid
\* points with d0 / 4 < dist < d0; sp holds sptr[0], sptr[1] in units of 1/Q
RECURSIVE Curvature(_, _, _, _, _, _, _, _)
Curvature(Ik, uy, ux, win, n, sp, best, l1) ==
    IF n >= GridPoints(win) THEN l1
    ELSE LET ss   == win.sslb + (n \div (win.fsub - win.fslb))
             fs   == win.fslb + (n % (win.fsub - win.fslb))
             dist == (ss * Q - sp.ss) ^ 2 + (fs * Q - sp.fs) ^ 2
             d0   == (best.ss_max * Q - sp.ss) ^ 2 + (best.fs_max * Q - sp.fs) ^ 2
         IN  IF 4 * dist > d0 /\ dist < d0
             THEN Only({Curvature(Ik, uy, ux, win, n + 1, sp, best,
                                  IF RLess(l1, l) THEN l ELSE l1) :
                        l \in {RDiv(RMul(Whole(2 * Q * Q),
                                         RSub(mse_bi(Ik, uy + ss * Q, ux + fs * Q),
                                              best.mse_min)),
                                    Whole(dist))}})
             ELSE Curvature(Ik, uy, ux, win, n + 1, sp, best, l1)

\* init_newton_c: sptr[0], sptr[1] become the grid point of the least MSE,
\* sptr[2] the curvature l1
init_newton_c(sptr, Ik, uy, ux) ==
    LET best == GridSearch(Ik, uy, ux, 0, 0)
        win  == SearchWindow(uy, ux)
        sp   == IF best.mse_min = Whole(FLOAT_MAX) THEN [ss |-> sptr.ss, fs |-> sptr.fs]
                ELSE [ss |-> best.ss_min * Q, fs |-> best.fs_min * Q]
        d0   == (best.ss_max * Q - sp.ss) ^ 2 + (best.fs_max * Q - sp.fs) ^ 2
    IN  IF best.mse_min = Whole(FLOAT_MAX)
        THEN [ss |-> sp.ss, fs |-> sp.fs, l1 |-> Whole(-FLOAT_MAX)]
        ELSE [ss |-> sp.ss, fs |-> sp.fs,
              l1 |-> Only({Curvature(Ik, uy, ux, win, 0, sp, best, first) :
                           first \in {RDiv(RMul(Whole(2 * Q * Q),
                                                RSub(best.mse_max, best.mse_min)),
                                           Whole(d0))}})]

\* The iteration of newton_1d_c reads mptr0[1] before it is set and takes
\* roots: what it ends with is not computed here but chosen from these.
\* Either the shift stays sptr[1] (no iteration, or fs left the window), or
\* the loop ended with the shift fs.
NewtonOutcomes ==
    IF n_iter = 0 THEN {[left |-> TRUE, fs |-> 0]}
    ELSE {[left |-> TRUE, fs |-> 0]} \cup {[left |-> FALSE, fs |-> v] : v \in {-Q, 0, Q}}

\* newton_1d_c on u[:, j, k] = (uy, ux) with the outcome out of the iteration;
\* without an iteration, and when fs left the window, the shift is sptr[1]
newton_1d_c(sptr, Ik, uy, ux, out) ==
    LET sp == IF sptr.l1 = Zero THEN init_newton_c(sptr, Ik, uy, ux) ELSE sptr
    IN  IF out.left
        THEN [u |-> <<uy, ux + sp.fs>>, sptr |-> sp]
        ELSE [u |-> <<uy, ux + out.fs>>, sptr |-> [sp EXCEPT !.fs = out.fs]]

\* the values the model draws for one pixel
PixelOutcomes == IF entry = "update_pixel_map_gs" THEN SubShifts ELSE NewtonOutcomes

\* the body of the pixel loop: krig_data_c; u[:, j, k] = u0[:, j, k]; the search
LegacyPixel(st, j, k, out) ==
    LET Ik == krig_data_c(j, k)
        uy == u0[1][j + 1][k + 1]
        ux == u0[2][j + 1][k + 1]
    IN  IF entry = "update_pixel_map_gs"
        THEN Only({[u |-> SetU(st.u, j, k, nu[1], nu[2]), sptr |-> st.sptr] :
                   nu \in {mse_min_c(Ik, uy, ux, out)}})
        ELSE Only({[u |-> SetU(st.u, j, k, res.u[1], res.u[2]), sptr |-> res.sptr] :
                   res \in {newton_1d_c(st.sptr, Ik, uy, ux, out)}})

RECURSIVE LegacyColumns(_, _, _, _, _)
LegacyColumns(st, k, khi, j, outs) ==
    IF k >= khi THEN st
    ELSE IF j = Y THEN LegacyColumns(st, k + 1, khi, 0, outs)
         ELSE Only({LegacyColumns(ns, k, khi, j + 1, outs) :
                    ns \in {LegacyPixel(st, j, k, outs[<<j, k>>])}})

\* u = np.empty((2, b, c)); I, sptr = np.zeros((max_threads, 3))
LegacyAllocate ==
    /\ pc = "call" /\ entry \in LegacyRefiners
    /\ u' = [c \in 1 .. 2 |-> [j \in 1 .. Y |-> [k \in 1 .. X |-> "uninit"]]]
    /\ heap' = IF entry = "update_pixel_map_gs" THEN {"u", "I"} ELSE {"u", "I", "sptr"}
    /\ wpc' = [t \in 1 .. num_threads |-> "loop"]
    /\ pc' = "parallel"
    /\ UNCHANGED <<inputs, extra, I0, f, buffers, step, derr, r_master, r, mread, next_iter>>

\* prange(c, schedule='guided'): worker t takes the next chunk of the columns
GsChunk(t) ==
    /\ pc = "parallel" /\ entry = "update_pixel_map_gs"
    /\ wpc[t] = "loop"
    /\ next_iter < X
    /\ \E hi \in {next_iter + ChunkSize(X - next_iter, num_threads)} :
       \E outs \in [(0 .. Y - 1) \X (next_iter .. hi - 1) -> PixelOutcomes] :
       \E st \in {LegacyColumns([u |-> u, sptr |-> "none"], next_iter, hi, 0, outs)} :
           /\ u' = st.u
           /\ next_iter' = hi
    /\ UNCHANGED <<inputs, extra, I0, f, buffers, pc, step, heap, derr, r_master, r, wpc, mread>>

\* the columns schedule='static' gives to worker t of num_threads
StaticChunk(t) ==
    LET q == (X + num_threads - 1) \div num_threads
    IN  [lo |-> Min((t - 1) * q, X), hi |-> Min(t * q, X)]

\* prange(c, schedule='static'): worker t runs its columns with sptr[t]
NmChunk(t) ==
    /\ pc = "parallel" /\ entry = "update_pixel_map_nm"
    /\ wpc[t] = "loop"
    /\ \E ch \in {StaticChunk(t)} :
       \E outs \in [(0 .. Y - 1) \X (ch.lo .. ch.hi - 1) -> PixelOutcomes] :
       \E st \in {LegacyColumns([u |-> u, sptr |-> [ss |-> 0, fs |-> 0, l1 |-> Zero]],
                                ch.lo, ch.hi, 0, outs)} :
           /\ u' = st.u
           /\ next_iter' = next_iter + (ch.hi - ch.lo)
    /\ wpc' = [wpc EXCEPT ![t] = "done"]
    /\ UNCHANGED <<inputs, extra, I0, f, buffers, pc, step, heap, derr, r_master, r, mread>>

\* return np.asarray(u)
LegacyReturn ==
    /\ pc = "parallel" /\ entry \in LegacyRefiners
    /\ next_iter = X
    /\ entry = "update_pixel_map_nm" => \A t \in 1 .. num_threads : wpc[t] = "done"
    /\ pc' = "returned"
    /\ UNCHANGED <<inputs, extra, I0, f, buffers, step, heap, refine>>

InitLegacy ==
    /\ entry \in LegacyRefiners
    /\ I_n \in {Frames(p) : p \in 0 .. 1}
    /\ W \in Whitefields
    /\ I0 \in {RefImage(p) : p \in 0 .. 1}
    /\ u0 \in {PixelMap(0, 0), PixelMap(0, Q)}
    /\ di = [i \in 1 .. NFrames |-> 0]
    /\ dj = [i \in 1 .. NFrames |-> (i - 1) * Q]
    /\ ds_y = 1 /\ ds_x = 1 /\ sigma = 1 /\ h = Q
    /\ loss = "L2"
    /\ sw_y \in {Q, 2 * Q} /\ sw_x \in {Q, 2 * Q}
    /\ grid_size = 0 /\ n_trials = 0 /\ pop_size = 0
    /\ n_iter \in IF entry = "update_pixel_map_nm" THEN 0 .. MaxIter ELSE {0}
    /\ F = 0 /\ CR = 0 /\ seed = 0
    /\ num_threads \in ThreadCounts
    /\ boundscheck = TRUE
    /\ pc = "call" /\ f = "none" /\ Fresh
    /\ arg = << >> /\ ret = << >>

NextLegacy ==
    \/ LegacyAllocate
    \/ \E t \in 1 .. num_threads : GsChunk(t)
    \/ \E t \in 1 .. num_threads : NmChunk(t)
    \/ LegacyReturn

SpecLegacy == InitLegacy /\ [][NextLegacy]_vars

\* C17: when update_pixel_map_gs or update_pixel_map_nm has returned, the
\* map of every pixel whose whitefield is not positive is the input map.
C17_MaskedSkipped ==
    (pc = "returned" /\ entry \in LegacyRefiners) =>
        \A p \in Pixels : Masked(p) => ~Moved(p)

\* ------------------------------------------- pm_errors and pm_total_error
\* A C variable that is declared and never assigned holds whatever its
\* storage held: one of these, in the units of FVU_interp.
Uninitialised == {-1, 0, 1}

\* the sum of PixelError over the columns k .. khi-1
RECURSIVE ColumnErrors(_, _, _)
ColumnErrors(k, khi, j) ==
    IF k >= khi THEN 0
    ELSE IF j = Y THEN ColumnErrors(k + 1, khi, 0)
         ELSE PixelError(j, k) + ColumnErrors(k, khi, j + 1)

\* cdef double err; the prange with err += ... makes err a reduction
\* variable: each worker starts with a private err = 0
TotalStart ==
    /\ pc = "parallel" /\ entry = "pm_total_error"
    /\ \A t \in 1 .. num_threads : wpc[t] = "idle"
    /\ err_acc' \in Uninitialised
    /\ err_t' = [t \in 1 .. num_threads |-> 0]
    /\ wpc' = [t \in 1 .. num_threads |-> "loop"]
    /\ UNCHANGED <<inputs, I0, f, buffers, pc, step, heap, u, derr, r_master, r, mread, next_iter>>
    /\ UNCHANGED <<boundscheck, writes, oob, errors, dij, arg, ret>>

\* worker t takes the next chunk of the prange over k and adds the residuals
\* of its unmasked pixels to its private err
TotalChunk(t) ==
    /\ pc = "parallel" /\ entry = "pm_total_error"
    /\ wpc[t] = "loop"
    /\ next_iter < X
    /\ \E hi \in {next_iter + ChunkSize(X - next_iter, num_threads)} :
           /\ err_t' = [err_t EXCEPT ![t] = @ + ColumnErrors(next_iter, hi, 0)]
           /\ next_iter' = hi
    /\ UNCHANGED <<inputs, I0, f, buffers, pc, step, heap, u, derr, r_master, r, wpc, mread>>
    /\ UNCHANGED <<boundscheck, writes, oob, errors, dij, err_acc, arg, ret>>

\* the sum of the workers' private copies
RECURSIVE Reduce(_)
Reduce(t) == IF t = 0 THEN 0 ELSE err_t[t] + Reduce(t - 1)

\* the end of the prange: the private copies are added to err;
\* return err / (X * Y), as <<numerator, denominator>>
TotalReturn ==
    /\ pc = "parallel" /\ entry = "pm_total_error"
    /\ \A t \in 1 .. num_threads : wpc[t] = "loop"
    /\ next_iter = X
    /\ err_acc' = err_acc + Reduce(num_threads)
    /\ ret' = <<err_acc + Reduce(num_threads), X * Y>>
    /\ pc' = "returned"
    /\ UNCHANGED <<inputs, I0, f, buffers, step, heap, refine>>
    /\ UNCHANGED <<boundscheck, writes, oob, errors, dij, err_t, arg>>

\* return errs
ErrorsReturn ==
    /\ pc = "parallel" /\ entry = "pm_errors"
    /\ next_iter = X
    /\ pc' = "returned"
    /\ UNCHANGED <<inputs, extra, I0, f, buffers, step, heap, refine>>

InitErr ==
    /\ entry \in {"pm_errors", "pm_total_error"}
    /\ I_n \in {Frames(p) : p \in 0 .. 1}
    /\ W \in Whitefields
    /\ I0 \in {RefImage(p) : p \in 0 .. 1}
    /\ u0 \in {PixelMap(0, 0), PixelMap(Q \div 2, Q)}
    /\ di = [i \in 1 .. NFrames |-> 0]
    /\ dj = [i \in 1 .. NFrames |-> (i - 1) * Q]
    /\ ds_y = 1 /\ ds_x = 1 /\ sigma = 1 /\ h = 0
    /\ loss \in {"L1", "Huber"}
    /\ sw_y = 0 /\ sw_x = 0
    /\ grid_size = 0 /\ n_trials = 0 /\ pop_size = 0 /\ n_iter = 0
    /\ F = 0 /\ CR = 0 /\ seed = 0
    /\ num_threads \in ThreadCounts
    /\ boundscheck = TRUE
    /\ Idle /\ arg = << >> /\ ret = << >>

NextErr ==
    \/ CheckIntervals
    \/ ChooseLoss
    \/ Allocate
    \/ \E t \in 1 .. num_threads : ErrorsChunk(t)
    \/ ErrorsReturn
    \/ TotalStart
    \/ \E t \in 1 .. num_threads : TotalChunk(t)
    \/ TotalReturn

SpecErr == InitErr /\ [][NextErr]_vars

\* C18: the value pm_total_error returns is the sum over all pixels of the
\* table pm_errors returns for the same arguments, divided by Y * X.
C18_MeanOfTable ==
    (pc = "returned" /\ entry = "pm_total_error") =>
        ret = <<ColumnErrors(0, X, 0), X * Y>>

\* ------------------------------------------------------------ ct_integrate
\* Complex numbers are pairs <<re, im>> of exact rationals.  The transforms
\* are the discrete Fourier transforms FFTW computes, written out for the
\* lengths 2 and 4, whose roots of unity are 1, i, -1, -i.
MaxGrad == 1     \* gradients are integers up to MaxGrad in absolute value

CZero == <<Zero, Zero>>

CAdd(z, w) == <<RAdd(z[1], w[1]), RAdd(z[2], w[2])>>

\* z * s for a real s
CScale(z, s) == <<RMul(z[1], s), RMul(z[2], s)>>

\* z * i^q
CTurn(z, q) ==
    CASE q % 4 = 0 -> z
      [] q % 4 = 1 -> <<RNeg(z[2]), z[1]>>
      [] q % 4 = 2 -> <<RNeg(z[1]), RNeg(z[2])>>
      [] q % 4 = 3 -> <<z[2], RNeg(z[1])>>

\* the element (p, q) of the transform of arr: the sum from the n-th element
\* on of arr[i, j] * exp(sign * 2 pi i (p i / M + q j / N))
RECURSIVE DFTSum(_, _, _, _, _)
DFTSum(arr, sign, p, q, n) ==
    LET M == Len(arr)
        N == Len(arr[1])
        i == n \div N
        j == n % N
    IN  IF n = M * N THEN CZero
        ELSE Only({CAdd(CTurn(arr[i + 1][j + 1],
                              sign * (p * i * (4 \div M) + q * j * (4 \div N)) + 16 * M * N),
                        rest) :
                   rest \in {DFTSum(arr, sign, p, q, n + 1)}})

\* fftw_obj._execute() (sign = -1) and ifftw_obj._execute() (sign = 1), in place
\* and not normalised
FFTW(arr, sign) ==
    [p \in 1 .. Len(arr) |-> [q \in 1 .. Len(arr[1]) |-> DFTSum(arr, sign, p - 1, q - 1, 0)]]

sfy_fill_mirrored(sy) ==
    LET a == Len(sy)
        b == Len(sy[1])
    IN  [i \in 1 .. 2 * a |-> [j \in 1 .. 2 * b |->
            <<Whole(IF i <= a /\ j <= b THEN -sy[a - i + 1][b - j + 1]
                    ELSE IF i > a /\ j <= b THEN sy[i - a][b - j + 1]
                    ELSE IF i <= a THEN sy[a - i + 1][j - b]
                    ELSE sy[i - a][j - b]), Zero>>]]

\* the four loops that fill sfy_asdi from sy_arr
sfy_fill(sy) ==
    LET a == Len(sy)
        b == Len(sy[1])
    IN  [i \in 1 .. 2 * a |-> [j \in 1 .. 2 * b |->
            <<Whole(IF i <= a /\ j <= b THEN -sy[a - i + 1][b - j + 1]
                    ELSE IF i > a /\ j <= b THEN sy[i - a][b - j + 1]
                    ELSE IF i <= a THEN -sy[a - i + 1][j - b]
                    ELSE sy[i - a][j - b]), Zero>>]]

\* the four loops that fill sfx_asdi from sx_arr
sfx_fill(sx) ==
    LET a == Len(sx)
        b == Len(sx[1])
    IN  [i \in 1 .. 2 * a |-> [j \in 1 .. 2 * b |->
            <<Whole(IF i <= a /\ j <= b THEN -sx[a - i + 1][b - j + 1]
                    ELSE IF i > a /\ j <= b THEN -sx[i - a][b - j + 1]
                    ELSE IF i <= a THEN sx[a - i + 1][j - b]
                    ELSE sx[i - a][j - b]), Zero>>]]

\* yf = 0.5 * i / a - i // a
Freq(i, a) == RSub(Rat(i, 2 * a), Whole(i \div a))

\* ifftw_obj = pyfftw.FFTW(sfx_asdi, sfx_asdi, direction='FFTW_BACKWARD', ...)
\* plans the inverse transform on the array that already holds the transform
\* of sx.  No flags are passed: the planner of the FFTW library then measures
\* candidate plans on the array itself, which leaves it zero everywhere,
\* unless it already knows a plan for the problem (a second call for the same
\* shape in the same process), in which case the array is left alone.
Planned(arr, wiped) ==
    IF wiped THEN [i \in 1 .. Len(arr) |-> [j \in 1 .. Len(arr[1]) |-> CZero]]
    ELSE arr

\* sfx_asdi[0, 0] = 0.0 + 0.0j
ZeroDC(arr) == [arr EXCEPT ![1][1] = CZero]

\* norm * (sfy * yf + sfx * xf) / (2j * pi * (xf * xf + yf * yf)) for every
\* element, in units of 1 / (2 pi): a division by i is a multiplication by -i
Integrand(sfy, sfx, a, b) ==
    [i \in 1 .. 2 * a |-> [j \in 1 .. 2 * b |->
        Only({CTurn(CScale(CAdd(CScale(sfy[i][j], yf), CScale(sfx[i][j], xf)),
                           RDiv(Rat(1, 4 * a * b), RAdd(RSq(xf), RSq(yf)))), 3) :
              yf \in {Freq(i - 1, a)}, xf \in {Freq(j - 1, b)}})]]

\* ct_integrate(sy_arr, sx_arr): the frequency-domain array the inverse
\* transform is taken of, the array returned, sfx_asdi.real[a:, b:], and
\* what the planning did
ct_integrate(sy, sx, wiped) ==
    LET a == Len(sy)
        b == Len(sy[1])
    IN  Only({[freq  |-> sf,
               w     |-> [i \in 1 .. a |-> [j \in 1 .. b |-> back[i + a][j + b][1]]],
               wiped |-> wiped] :
              sf \in {ZeroDC(Integrand(FFTW(sfy_fill(sy), -1),
                                       Planned(FFTW(sfx_fill(sx), -1), wiped), a, b))},
              back \in {FFTW(ZeroDC(Integrand(FFTW(sfy_fill(sy), -1),
                                             Planned(FFTW(sfx_fill(sx), -1), wiped),
                                             a, b)), 1)}})

\* c * arr, element by element
Times(c, arr) == [i \in 1 .. Len(arr) |-> [j \in 1 .. Len(arr[1]) |-> c * arr[i][j]]]

\* ct_integrate(sy, sx) is called.  At i = j = 0 the loop divides by
\* 2j * pi * 0: a build without the cdivision directive tests the divisor
\* and raises ZeroDivisionError, a build with it goes on, and the element
\* is overwritten after the loop.
CtCall ==
    /\ pc = "call" /\ entry = "ct_integrate"
    /\ \E checked \in BOOLEAN, wiped \in BOOLEAN :
           /\ pc' = IF checked THEN "raised" ELSE "scaled"
           /\ ret' = IF checked THEN ret ELSE <<ct_integrate(arg.sy, arg.sx, wiped)>>
    /\ UNCHANGED <<inputs, I0, f, buffers, step, heap, refine>>
    /\ UNCHANGED <<boundscheck, writes, oob, tables, arg>>

\* ct_integrate(c * sy, c * sx) is called by the same build
CtCallScaled ==
    /\ pc = "scaled" /\ entry = "ct_integrate"
    /\ \E wiped \in BOOLEAN :
           ret' = Append(ret, ct_integrate(Times(arg.c, arg.sy), Times(arg.c, arg.sx), wiped))
    /\ pc' = "returned"
    /\ UNCHANGED <<inputs, I0, f, buffers, step, heap, refine>>
    /\ UNCHANGED <<boundscheck, writes, oob, tables, arg>>

\* the shapes a x b for which 2a and 2b are 2 or 4
CtShapes == {<<1, 1>>, <<1, 2>>, <<2, 1>>}

GradArrays(shape) == [1 .. shape[1] -> [1 .. shape[2] -> -MaxGrad .. MaxGrad]]

CtScalars == {-1, 0, 2, 3}

InitCT ==
    /\ entry = "ct_integrate"
    /\ \E shape \in CtShapes :
           arg \in [sy : GradArrays(shape), sx : GradArrays(shape), c : CtScalars]
    /\ ret = << >>
    /\ NoArrays
    /\ pc = "call" /\ f = "none" /\ Fresh

NextCT ==
    \/ CtCall
    \/ CtCallScaled

SpecCT == InitCT /\ [][NextCT]_vars

\* C19: when ct_integrate has returned for (sy, sx) and for (c sy, c sx),
\* every element of the second result is c times the element of the first,
\* and in both calls the element of zero frequency is zero in the array the
\* inverse transform is taken of.
C19_Linear ==
    (pc = "returned" /\ entry = "ct_integrate") =>
        /\ \A i \in 1 .. Len(arg.sy), j \in 1 .. Len(arg.sy[1]) :
               ret[2].w[i][j] = RMul(Whole(arg.c), ret[1].w[i][j])
        /\ ret[1].freq[1][1] = CZero
        /\ ret[2].freq[1][1] = CZero

\* ------------------------------------------------ FVU_interp_tr on its own
\* the table tr_gsearch passes as errors: FVU_interp of every unmasked
\* pixel at the map, 0.0 for a masked pixel
BaselineTable == [j \in 1 .. Y |-> [k \in 1 .. X |-> PixelError(j - 1, k - 1)]]

\* FVU_interp_tr(errors, I_n[i], W, I0, u, di[i], dj[i], arg.di, arg.dj, ...)
\* returns, times Y * X * N * LossDen
TrEvalCall ==
    /\ pc = "call" /\ entry = "FVU_interp_tr"
    /\ ret' = FVU_interp_tr(BaselineTable, arg.i, di[arg.i + 1], dj[arg.i + 1],
                            arg.di, arg.dj)
    /\ pc' = "returned"
    /\ UNCHANGED <<inputs, I0, f, buffers, step, heap, refine>>
    /\ UNCHANGED <<boundscheck, writes, oob, tables, arg>>

InitTrEval ==
    /\ entry = "FVU_interp_tr"
    /\ I_n \in {Frames(p) : p \in 0 .. 1}
    /\ W \in Whitefields
    /\ I0 \in {RefImage(p) : p \in 0 .. 1}
    /\ u0 \in {PixelMap(0, 0), PixelMap(Q \div 2, Q)}
    /\ di = [i \in 1 .. NFrames |-> 0]
    /\ dj \in {[i \in 1 .. NFrames |-> (i - 1) * Q], [i \in 1 .. NFrames |-> 0]}
    /\ ds_y = 1 /\ ds_x = 1 /\ sigma = 1 /\ h = 0
    /\ loss \in {"L1", "Huber"} /\ f = loss
    /\ sw_y = 0 /\ sw_x = 0
    /\ grid_size = 0 /\ n_trials = 0 /\ pop_size = 0 /\ n_iter = 0
    /\ F = 0 /\ CR = 0 /\ seed = 0
    /\ num_threads = 1 /\ boundscheck = TRUE
    /\ arg \in [i : 0 .. NFrames - 1, di : {-Q, 0, Q}, dj : {-Q, 0, Q, 2 * Q}]
    /\ ret = "none"
    /\ pc = "call" /\ Fresh

NextTrEval == TrEvalCall

SpecTrEval == InitTrEval /\ [][NextTrEval]_vars

\* C20 (as claimed): FVU_interp_tr returns the sum over the pixels of
\* errors[j, k] - loss at the current translation (di0, dj0) + loss at the
\* candidate (di, dj), divided by Y * X.
C20_DeltaOfCandidate ==
    (pc = "returned" /\ entry = "FVU_interp_tr") =>
        ret = ColumnErrors(0, X, 0)
              - Len(I_n) * FrameError(arg.i, di[arg.i + 1], dj[arg.i + 1])
              + Len(I_n) * FrameError(arg.i, arg.di, arg.dj)

\* ------------------------------------------------- the seeds of the workers
\* the master generator after n draws
RECURSIVE Drawn(_, _)
Drawn(s, n) == IF n = 0 THEN s ELSE Drawn(gsl_rng_get(s).r, n - 1)

\* C21 (as claimed): when pm_rsearch or pm_devolution has returned, the
\* master generator has advanced once for every worker and no two workers
\* took their seed from the same state of the master generator.
C21_SeedsDistinct ==
    (pc = "returned" /\ entry \in Randomised) =>
        /\ r_master = Drawn(gsl_rng_set(seed), num_threads)
        /\ \A s, t \in 1 .. num_threads : s # t => mread[s] # mread[t]

\* ------------------------------------- the accumulators of the two phases
\* ref_errors and ref_total_error have the two phases of the estimators:
\* a prange over the frames in which worker t passes err_buf[t] and R_buf[t]
\* to FVU_frame, and a prange over the columns of the reference image.  Of
\* these two entry points the model keeps which worker writes which slice
\* and which cell, not the values.
RefErrors == {"ref_errors", "ref_total_error"}

\* worker t takes the next chunk of the prange over the frames
ErrAccumulate(t) ==
    /\ pc = "parallel" /\ entry \in RefErrors
    /\ t \in 1 .. num_threads
    /\ next_iter < Len(I_n)
    /\ next_iter' = next_iter + ChunkSize(Len(I_n) - next_iter, num_threads)
    /\ writes' = AccWrite(t, ThreadNum(t), next_iter,
                          next_iter + ChunkSize(Len(I_n) - next_iter, num_threads))
    /\ UNCHANGED <<inputs, boundscheck, oob, tables, arg, ret>>
    /\ UNCHANGED <<I0, f, buffers, pc, step, heap, u, derr, r_master, r, wpc, mread>>

\* the end of the prange over the frames
ErrBarrier ==
    /\ pc = "parallel" /\ entry \in RefErrors
    /\ next_iter = Len(I_n)
    /\ pc' = "reduce"
    /\ next_iter' = 0
    /\ UNCHANGED <<inputs, extra, I0, f, buffers, step, heap, u, derr, r_master, r, wpc, mread>>

\* worker t takes the next chunk of the prange over k: ref_errors writes
\* _err[j, k] for every j, ref_total_error adds to its reduction variables
ErrReduce(t) ==
    /\ pc = "reduce" /\ entry \in RefErrors
    /\ t \in 1 .. num_threads
    /\ next_iter < Len(I0[1])
    /\ next_iter' = next_iter + ChunkSize(Len(I0[1]) - next_iter, num_threads)
    /\ writes' = IF entry = "ref_errors"
                 THEN RedWrite(t, next_iter,
                               next_iter + ChunkSize(Len(I0[1]) - next_iter, num_threads),
                               Len(I0))
                 ELSE writes
    /\ UNCHANGED <<inputs, boundscheck, oob, tables, arg, ret>>
    /\ UNCHANGED <<I0, f, buffers, pc, step, heap, u, derr, r_master, r, wpc, mread>>

\* return err | return err, sqrt(err2 - err * err)
ErrReturn ==
    /\ pc = "reduce" /\ entry \in RefErrors
    /\ next_iter = Len(I0[1])
    /\ pc' = "returned"
    /\ UNCHANGED <<inputs, extra, I0, f, buffers, step, heap, refine>>

InitRefErr ==
    /\ entry \in RefErrors
    /\ I_n \in {Frames(p) : p \in 0 .. 1}
    /\ W \in Whitefields
    /\ I0 \in {RefImage(p) : p \in 0 .. 1}
    /\ u0 \in {PixelMap(0, 0), PixelMap(Q \div 2, Q)}
    /\ di = [i \in 1 .. NFrames |-> 0]
    /\ dj = [i \in 1 .. NFrames |-> (i - 1) * Q]
    /\ ds_y = 1 /\ ds_x = 1 /\ sigma = 1 /\ h = 1
    /\ loss \in {"L1", "Huber"}
    /\ sw_y = 0 /\ sw_x = 0
    /\ grid_size = 0 /\ n_trials = 0 /\ pop_size = 0 /\ n_iter = 0
    /\ F = 0 /\ CR = 0 /\ seed = 0
    /\ num_threads \in ThreadCounts
    /\ boundscheck = TRUE
    /\ Idle /\ arg = << >> /\ ret = << >>

InitSlices == InitRef \/ InitRefErr

NextSlices ==
    \/ CheckIntervals
    \/ ChooseLoss
    \/ Allocate
    \/ \E t \in 1 .. num_threads : AccumulateChunk(t)
    \/ Barrier
    \/ \E t \in 1 .. num_threads : ReduceChunk(t)
    \/ ReturnReference
    \/ \E t \in 1 .. num_threads : ErrAccumulate(t)
    \/ ErrBarrier
    \/ \E t \in 1 .. num_threads : ErrReduce(t)
    \/ ErrReturn

SpecSlices == InitSlices /\ [][NextSlices]_vars

\* the rows and columns of the output the reduction phase writes
OutRows == IF entry \in Estimators THEN Y0 ELSE Len(I0)
OutCols == IF entry \in Estimators THEN X0 ELSE Len(I0[1])

\* C22: a worker writes only the accumulator slice of its own number, which
\* is one of the num_threads slices allocated, so no slice is written by two
\* workers; no output cell is written twice, and when the call has returned
\* every output cell has been written.
C22_OwnSlice ==
    /\ \A w \in writes.acc : w[2] = w[1] /\ w[2] \in 1 .. num_threads
    /\ \A v, w \in writes.acc : v[2] = w[2] => v[1] = w[1]
    /\ (entry \in Estimators /\ "I0_buf" \in heap) =>
           Len(I0_buf) = num_threads /\ Len(W0_buf) = num_threads
    /\ \A w \in writes.red : w[4] = 1
    /\ (pc = "returned" /\ entry \in Estimators \cup {"ref_errors"}) =>
           \A j \in 0 .. OutRows - 1, k \in 0 .. OutCols - 1 :
               \E w \in writes.red : w[2] = j /\ w[3] = k

\* a call returned whose accumulation and whose reduction were both shared
\* between two workers
C22_Witness ==
    /\ pc = "returned"
    /\ {w[1] : w \in writes.acc} = {1, 2}
    /\ {w[1] : w \in writes.red} = {1, 2}

\* ------------------------------------------------ the order of the phases
\* C23: in KR_reference and LOWESS_reference the accumulators are read by
\* the reduction, and the image is returned, only when every frame has been
\* accumulated; from then on no accumulator changes; and the image is
\* returned only when every cell has been reduced.
C23_PhasesOrdered ==
    /\ []((entry \in Estimators /\ pc \in {"reduce", "returned"}) =>
              writes.frames = 0 .. Len(I_n) - 1)
    /\ []((entry \in Estimators /\ pc = "returned") =>
              {<<w[2], w[3]>> : w \in writes.red} = Cells)
    /\ [][(entry \in Estimators /\ pc \in {"reduce", "returned"}) =>
              buffers' = buffers]_vars
    /\ [][(entry \in Estimators /\ writes.red' # writes.red) => pc = "reduce"]_vars

\* a LOWESS estimate returned after two workers accumulated frames and two
\* workers reduced columns
C23_Witness ==
    /\ entry = "LOWESS_reference" /\ pc = "returned"
    /\ Cardinality(writes.acc) = 2
    /\ Cardinality({w[1] : w \in writes.red}) = 2

\* ------------------------------------------ the local linear model of LOWESS
\* the local linear model with mean mat[1], means M and the slopes of
\* Betta, evaluated at the grid coordinate (ds_y * j, ds_x * k)
LinearModel(mat, M, j, k) ==
    LET var_y == RSub(M[3], RMul(M[1], M[1]))
        var_x == RSub(M[4], RMul(M[2], M[2]))
        betta_y == Betta(mat[2], mat[1], M[1], var_y)
        betta_x == Betta(mat[3], mat[1], M[2], var_x)
    IN  RAdd(RAdd(mat[1], RMul(betta_y, RSub(Whole(ds_y * j), M[1]))),
             RMul(betta_x, RSub(Whole(ds_x * k), M[2])))

\* C24 (as claimed): in the image LOWESS_reference returns, the predicted
\* numerator and denominator of every cell are the local linear model
\* A + b_y (ds_y j - m_y) + b_x (ds_x k - m_x) of the I W and of the W^2
\* moments, and the cell is their ratio when the denominator is positive.
C24_ModelAtCell ==
    (entry = "LOWESS_reference" /\ pc = "returned") =>
        \A c \in Cells : \A cell \in {LOWESS_cell(Slices, num_threads, c[1], c[2])} :
            /\ cell.I0_sum = LinearModel(cell.state.I0_mat, cell.state.M_mat, c[1], c[2])
            /\ cell.W0_sum = LinearModel(cell.state.W0_mat, cell.state.M_mat, c[1], c[2])
            /\ RPos(cell.W0_sum) =>
                   I0[c[1] + 1][c[2] + 1] = RDiv(cell.I0_sum, cell.W0_sum)

\* ------------------------------------ the pixels of update_pixel_map_nm
\* newton_1d_c on pixel (j, k) starting from sptr = (0, 0, 0), as the first
\* pixel of a worker starts
FreshNewton(j, k, out) ==
    newton_1d_c([ss |-> 0, fs |-> 0, l1 |-> Zero], krig_data_c(j, k),
                u0[1][j + 1][k + 1], u0[2][j + 1][k + 1], out).u

\* C25: when update_pixel_map_nm has returned, the map of every pixel is a
\* result of the Newton search started afresh on that pixel alone: it does
\* not depend on the pixels its worker ran before it.
C25_PixelIndependent ==
    (pc = "returned" /\ entry = "update_pixel_map_nm") =>
        \A p \in Pixels : \E out \in NewtonOutcomes :
            <<u[1][p[1] + 1][p[2] + 1], u[2][p[1] + 1][p[2] + 1]>> =
                FreshNewton(p[1], p[2], out)

\* ------------------------------ subpixel_ref_2d and subpixel_ref_1d, exact
\* The polish step on exact fractions.  mse_bi divides SS_res by SS_tot, the
\* same SS_tot at every point sampled: the seven residuals are all finite or
\* none is (NaN stands for every non-finite value).
PolishFunctions == {"subpixel_ref_2d", "subpixel_ref_1d"}
PolishResiduals == {Zero, One, Whole(3)}
PolishNames == {"f00", "f01", "f10", "f11", "f12", "f21", "f22"}

\* mu = mu if mu > 2 else 2
PolishSteps == {Whole(2), Whole(3)}

PolishArgs ==
    {[fs |-> fs, mu |-> mu] :
        fs \in [PolishNames -> PolishResiduals] \cup {[n \in PolishNames |-> NaN]},
        mu \in PolishSteps}

\* det != 0 and dd > 1; a comparison with NaN is unordered
NotZero(a) == IsNaN(a) \/ a[1] # 0
Exceeds1(a) == ~IsNaN(a) /\ RLess(One, a)

\* if dd > 1: dss /= dd; dfs /= dd.  dd is a root: the shift is kept as the
\* vector (dss, dfs) and the square dd2 of the length it is divided by.
Rescaled(dss, dfs) ==
    Only({[dss |-> dss, dfs |-> dfs, dd2 |-> IF Exceeds1(dd2) THEN dd2 ELSE One] :
          dd2 \in {RAdd(RSq(dfs), RSq(dss))}})

\* the determinant of the fitted quadratic
PolishDet(fn, fs) ==
    IF fn = "subpixel_ref_2d"
    THEN RSub(RMul(Whole(4),
                   RMul(RAdd(fs.f21, RSub(fs.f01, RMul(Whole(2), fs.f11))),
                        RAdd(fs.f12, RSub(fs.f10, RMul(Whole(2), fs.f11))))),
              RSq(RSub(RAdd(fs.f22, RAdd(fs.f00, RMul(Whole(2), fs.f11))),
                       RAdd(RAdd(fs.f01, fs.f21), RAdd(fs.f10, fs.f12)))))
    ELSE RMul(Whole(4), RAdd(fs.f12, RSub(fs.f10, RMul(Whole(2), fs.f11))))

subpixel_ref_2d(fs, mu) ==
    LET cross == RSub(RAdd(fs.f22, RAdd(fs.f00, RMul(Whole(2), fs.f11))),
                      RAdd(RAdd(fs.f01, fs.f21), RAdd(fs.f10, fs.f12)))
        cyy   == RAdd(fs.f21, RSub(fs.f01, RMul(Whole(2), fs.f11)))
        cxx   == RAdd(fs.f12, RSub(fs.f10, RMul(Whole(2), fs.f11)))
        det   == PolishDet("subpixel_ref_2d", fs)
    IN  IF NotZero(det)
        THEN Rescaled(
                 RDiv(RMul(RDiv(RSub(RMul(cross, RSub(fs.f12, fs.f10)),
                                     RMul(Whole(2), RMul(cxx, RSub(fs.f21, fs.f01)))),
                                det), mu), Whole(2)),
                 RDiv(RMul(RDiv(RSub(RMul(cross, RSub(fs.f21, fs.f01)),
                                     RMul(Whole(2), RMul(cyy, RSub(fs.f12, fs.f10)))),
                                det), mu), Whole(2)))
        ELSE [dss |-> Zero, dfs |-> Zero, dd2 |-> One]

subpixel_ref_1d(fs, mu) ==
    LET det == PolishDet("subpixel_ref_1d", fs)
    IN  IF NotZero(det)
        THEN Rescaled(Zero, RMul(RDiv(RSub(fs.f10, fs.f12), det), mu))
        ELSE [dss |-> Zero, dfs |-> Zero, dd2 |-> One]

\* the call fn(I, I0, u, di, dj, l1) returns: u[0] += dss; u[1] += dfs
PolishCall ==
    /\ pc = "call" /\ entry \in PolishFunctions
    /\ ret' = IF entry = "subpixel_ref_2d" THEN subpixel_ref_2d(arg.fs, arg.mu)
              ELSE subpixel_ref_1d(arg.fs, arg.mu)
    /\ pc' = "returned"
    /\ UNCHANGED <<inputs, I0, f, buffers, step, heap, refine>>
    /\ UNCHANGED <<boundscheck, writes, oob, tables, arg>>

InitPolish ==
    /\ entry \in PolishFunctions
    /\ arg \in PolishArgs
    /\ ret = "none"
    /\ NoArrays
    /\ pc = "call" /\ f = "none" /\ Fresh

NextPolish == PolishCall

SpecPolish == InitPolish /\ [][NextPolish]_vars

\* the square of the length of the shift added to the map
StepLength2(s) == RDiv(RAdd(RSq(s.dss), RSq(s.dfs)), s.dd2)

\* C26: the shift subpixel_ref_2d and subpixel_ref_1d add to the map has a
\* length of at most 1, and is zero when the determinant is 0.
C26_StepBounded ==
    (pc = "returned" /\ entry \in PolishFunctions) =>
        /\ ~IsNaN(StepLength2(ret)) /\ RLeq(StepLength2(ret), One)
        /\ PolishDet(entry, arg.fs) = Zero => (ret.dss = Zero /\ ret.dfs = Zero)

\* ------------------------------------ the extended buffers of ct_integrate
\* the sum of the elements n, n + 1, ... of a buffer, row by row
RECURSIVE BufferSum(_, _)
BufferSum(arr, n) ==
    IF n >= Len(arr) * Len(arr[1]) THEN CZero
    ELSE CAdd(arr[1 + (n \div Len(arr[1]))][1 + (n % Len(arr[1]))], BufferSum(arr, n + 1))

\* -z for an element of a buffer
CNeg(z) == <<RNeg(z[1]), RNeg(z[2])>>

\* C27: when ct_integrate has run, the buffers it filled from sy_arr and
\* sx_arr (a x b) are 2a x 2b, hold the input in the quadrant [a:, b:], the
\* sy buffer changes sign under the reflection of the rows and is unchanged
\* under the reflection of the columns, the sx buffer the other way round,
\* each buffer sums to zero, and the array returned is a x b.
C27_Antisymmetric ==
    (entry = "ct_integrate" /\ pc \in {"scaled", "returned"}) =>
        \A a \in {Len(arg.sy)} : \A b \in {Len(arg.sy[1])} :
        \A fy \in {sfy_fill(arg.sy)} : \A fx \in {sfx_fill(arg.sx)} :
            /\ Len(fy) = 2 * a /\ Len(fx) = 2 * a
            /\ \A i \in 1 .. 2 * a : Len(fy[i]) = 2 * b /\ Len(fx[i]) = 2 * b
            /\ \A i \in 1 .. a, j \in 1 .. b :
                   /\ fy[a + i][b + j] = <<Whole(arg.sy[i][j]), Zero>>
                   /\ fx[a + i][b + j] = <<Whole(arg.sx[i][j]), Zero>>
            /\ \A i \in 1 .. 2 * a, j \in 1 .. 2 * b :
                   /\ fy[2 * a + 1 - i][j] = CNeg(fy[i][j])
                   /\ fy[i][2 * b + 1 - j] = fy[i][j]
                   /\ fx[i][2 * b + 1 - j] = CNeg(fx[i][j])
                   /\ fx[2 * a + 1 - i][j] = fx[i][j]
            /\ BufferSum(fy, 0) = CZero /\ BufferSum(fx, 0) = CZero
            /\ \A n \in 1 .. Len(ret) :
                   /\ Len(ret[n].w) = a
                   /\ \A i \in 1 .. a : Len(ret[n].w[i]) = b

\* ct_integrate has returned for a 2 x 1 input whose rows differ
C27_Witness ==
    /\ entry = "ct_integrate" /\ pc = "returned"
    /\ Len(arg.sy) = 2
    /\ arg.sy[1][1] # arg.sy[2][1] /\ arg.sy[1][1] # -arg.sy[2][1]
    /\ arg.sx[1][1] # arg.sx[2][1] /\ arg.sx[2][1] # 0
    /\ Len(ret) = 2

\* --------------------------------------- pm_devolver, generation by generation
\* pm_devolver on one pixel, arg = [j, k, r]: the pixel and the state of the
\* worker's generator; the map it reads is u0 (u[:, j, k] = u0[:, j, k]).
\* ret = [d, n, ii, trial, first, prev]: the state d of the evolution, the
\* generation n and the member ii it is at, the trial vector of the member
\* before, the costs after the initialisation and at the end of the
\* generation before.

\* pop, cost, new_pop from malloc, err_min = FLOAT_MAX, u_min not initialised
DEStartState(rr) ==
    [pop     |-> [n \in 1 .. 2 * pop_size |-> 0],
     cost    |-> [n \in 1 .. pop_size |-> 0],
     new_pop |-> [n \in 1 .. 2 * pop_size |-> 0],
     u_min   |-> <<"uninit", "uninit">>,
     err_min |-> FLOAT_MAX,
     r       |-> rr]

\* the trial vector (new_pop[2 * ii], new_pop[2 * ii + 1]) of member ii
\* before it is accepted or dropped: lines 803-819
DETrial(ii, d) ==
    LET ga  == DrawOther(d.r, pop_size, {ii})
        gb  == DrawOther(ga.r, pop_size, {ii, ga.v})
        gj  == gsl_rng_uniform_int(gb.r, 2)
        gc  == gsl_rng_get(gj.r)
        c1  == gj.v
        v1  == IF gc.v * Q < CR * RngRange
               THEN Mutant(d, ga.v, gb.v, c1) ELSE d.pop[2 * ii + c1 + 1]
        v2  == Mutant(d, ga.v, gb.v, (gj.v + 1) % 2)
    IN  IF c1 = 0 THEN <<v1, v2>> ELSE <<v2, v1>>

\* lines 790-798
DEStart ==
    /\ pc = "call" /\ entry = "pm_devolver"
    /\ \E d \in {DEPopulate(u0, arg.j, arg.k, 0, DEStartState(arg.r))} :
           ret' = [d |-> d, n |-> 0, ii |-> 0, trial |-> << >>,
                   first |-> d.cost, prev |-> d.cost]
    /\ pc' = "evolve"
    /\ UNCHANGED <<inputs, I0, f, buffers, step, heap, refine>>
    /\ UNCHANGED <<boundscheck, writes, oob, tables, arg>>

\* one pass of the loop over ii: lines 802-830
DEMemberStep ==
    /\ pc = "evolve" /\ entry = "pm_devolver"
    /\ ret.n < n_iter /\ ret.ii < pop_size
    /\ ret' = [ret EXCEPT !.d = DEMember(u0, arg.j, arg.k, ret.ii, ret.d),
                          !.ii = ret.ii + 1,
                          !.trial = DETrial(ret.ii, ret.d)]
    /\ UNCHANGED <<inputs, I0, f, pc, buffers, step, heap, refine>>
    /\ UNCHANGED <<boundscheck, writes, oob, tables, arg>>

\* for ii in range(2 * NP): pop[ii] = new_pop[ii]   (lines 832-833)
DEGeneration ==
    /\ pc = "evolve" /\ entry = "pm_devolver"
    /\ ret.n < n_iter /\ ret.ii = pop_size
    /\ ret' = [d |-> [ret.d EXCEPT !.pop = ret.d.new_pop], n |-> ret.n + 1, ii |-> 0,
               trial |-> << >>, first |-> ret.first, prev |-> ret.d.cost]
    /\ UNCHANGED <<inputs, I0, f, pc, buffers, step, heap, refine>>
    /\ UNCHANGED <<boundscheck, writes, oob, tables, arg>>

\* free(pop); free(new_pop); free(cost); the shift u_min is added to the map
DEReturn ==
    /\ pc = "evolve" /\ entry = "pm_devolver"
    /\ ret.n = n_iter
    /\ pc' = "returned"
    /\ UNCHANGED <<inputs, I0, f, buffers, step, heap, refine>>
    /\ UNCHANGED <<boundscheck, writes, oob, tables, arg, ret>>

\* the pixels pm_devolution calls pm_devolver on, and the states of a generator
InitDE ==
    /\ entry = "pm_devolver"
    /\ I_n \in {Frames(p) : p \in 0 .. 1}
    /\ W \in Whitefields
    /\ I0 \in {RefImage(p) : p \in 0 .. 1}
    /\ u0 \in {PixelMap(0, 0), PixelMap(Q \div 2, Q)}
    /\ di = [i \in 1 .. NFrames |-> 0]
    /\ dj = [i \in 1 .. NFrames |-> (i - 1) * Q]
    /\ ds_y = 1 /\ ds_x = 1 /\ sigma = 1 /\ h = 0
    /\ loss \in {"L1", "Huber"}
    /\ sw_y \in {0, Q} /\ sw_x \in {0, Q}
    /\ grid_size = 0 /\ n_trials = 0
    /\ pop_size = 4
    /\ n_iter \in 0 .. MaxIter
    /\ F = Q
    /\ CR \in {Q \div 2, Q}
    /\ seed = 0
    /\ num_threads = 1
    /\ boundscheck = TRUE
    /\ pc = "call" /\ f = loss /\ Fresh
    /\ arg \in {a \in [j : 0 .. DetRows - 1, k : 0 .. DetCols - 1, r : 0 .. 2 * RngRange - 1] :
                    W[a.j + 1][a.k + 1] > 0}
    /\ ret = << >>

NextDE ==
    \/ DEStart
    \/ DEMemberStep
    \/ DEGeneration
    \/ DEReturn

SpecDE == InitDE /\ [][NextDE]_vars

\* FVU_interp at member ii of the population of d
MemberCost(d, ii) ==
    FVU_interp(arg.j, arg.k, u0[1][arg.j + 1][arg.k + 1] + d.pop[2 * ii + 1],
               u0[2][arg.j + 1][arg.k + 1] + d.pop[2 * ii + 2])

\* the least of a sequence of costs
LeastCost(cost) == CHOOSE c \in {cost[i] : i \in 1 .. Len(cost)} :
                       \A i \in 1 .. Len(cost) : c <= cost[i]

InitSearch == InitPM \/ InitDE

NextSearch == NextPM \/ NextDE

SpecSearch == InitSearch /\ [][NextSearch]_vars

\* |v| <= sw
InWindow(v, sw) == -sw <= v /\ v <= sw

\* C28: when pm_gsearch, pm_rsearch or pm_devolution has returned, the map
\* of every pixel is within sw_y and sw_x of the input map; in pm_devolver
\* every member of the population and every trial vector is inside the
\* window, at every member of every generation.
C28_InsideWindow ==
    /\ (pc = "returned" /\ entry \in Refiners) =>
           \A p \in Pixels :
               /\ InWindow(u[1][p[1] + 1][p[2] + 1] - u0[1][p[1] + 1][p[2] + 1], sw_y)
               /\ InWindow(u[2][p[1] + 1][p[2] + 1] - u0[2][p[1] + 1][p[2] + 1], sw_x)
    /\ (entry = "pm_devolver" /\ pc \in {"evolve", "returned"}) =>
           /\ \A i \in 0 .. pop_size - 1 :
                  /\ InWindow(ret.d.pop[2 * i + 1], sw_y)
                  /\ InWindow(ret.d.pop[2 * i + 2], sw_x)
                  /\ InWindow(ret.d.new_pop[2 * i + 1], sw_y)
                  /\ InWindow(ret.d.new_pop[2 * i + 2], sw_x)
           /\ InWindow(ret.d.u_min[1], sw_y) /\ InWindow(ret.d.u_min[2], sw_x)
           /\ ret.trial # << >> =>
                  InWindow(ret.trial[1], sw_y) /\ InWindow(ret.trial[2], sw_x)

\* a trial vector of pm_devolver lies on the upper edge of the window, where
\* no draw of the initial population lies
C28_Witness ==
    /\ entry = "pm_devolver" /\ pc = "evolve"
    /\ ret.trial # << >>
    /\ sw_x = Q /\ ret.trial[2] = sw_x

\* ------------------------------------------- the samples and the output grid
\* C30: in KR_reference and LOWESS_reference, for every frame i and pixel
\* (j, k) the coordinates y and x are not negative, their cells
\* trunc(y / ds_y) and trunc(x / ds_x) are at most Y0 - 1 and X0 - 1, the
\* cells the frame routines write for the pixel lie in [0, Y0) x [0, X0),
\* and every slice of the accumulators has Y0 rows of X0 cells.
C30_SamplesInsideGrid ==
    (entry \in Estimators /\ pc \in {"parallel", "reduce", "returned"}) =>
        /\ \A i \in 0 .. Len(I_n) - 1 : \A p \in Pixels :
               /\ PixY(i, p[1], p[2]) >= 0 /\ PixX(i, p[1], p[2]) >= 0
               /\ Trunc(PixY(i, p[1], p[2]), Q * ds_y) <= Y0 - 1
               /\ Trunc(PixX(i, p[1], p[2]), Q * ds_x) <= X0 - 1
               /\ CellRange(PixY(i, p[1], p[2]), ds_y, Y0) \subseteq 0 .. Y0 - 1
               /\ CellRange(PixX(i, p[1], p[2]), ds_x, X0) \subseteq 0 .. X0 - 1
        /\ \A t \in 1 .. Len(I0_buf) :
               /\ Len(I0_buf[t]) = Y0 /\ Len(W0_buf[t]) = Y0
               /\ \A jj \in 1 .. Y0 : Len(I0_buf[t][jj]) = X0 /\ Len(W0_buf[t][jj]) = X0

\* an estimator has returned for frames that are shifted along both axes;
\* one sample lies at the origin of the grid and one in its last cell
C30_Witness ==
    /\ entry \in Estimators /\ pc = "returned"
    /\ writes.frames = 0 .. Len(I_n) - 1
    /\ Y0 > 1 /\ X0 > 2
    /\ \E i \in 0 .. Len(I_n) - 1 : \E p \in Pixels :
           PixY(i, p[1], p[2]) = 0 /\ PixX(i, p[1], p[2]) = 0
    /\ \E i \in 0 .. Len(I_n) - 1 : \E p \in Pixels :
           /\ Trunc(PixY(i, p[1], p[2]), Q * ds_y) = Y0 - 1
           /\ Trunc(PixX(i, p[1], p[2]), Q * ds_x) = X0 - 1

=============================================================================
